---------------------------- MODULE Spec2Model ----------------------------
(***************************************************************************)
(* A model of the h11-rs HTTP/1.1 connection engine: the dual client /     *)
(* server state machine of src/state.rs and the connection driver of       *)
(* src/conn.rs with the head codec and body readers it calls.              *)
(*                                                                         *)
(* Spec      arbitrary sequences of calls of the public operations of      *)
(*           state::State.                                                 *)
(* SpecConn  arbitrary sequences of calls of the public operations of      *)
(*           conn::HttpConn<Role>, for both roles, over a byte stream.     *)
(* SpecReader, SpecWriter  the body readers and writers of src/body.rs     *)
(*           driven on their own.                                          *)
(* SpecHead  the functions of a head: keep-alive, framing, and writing a   *)
(*           head and parsing it back.                                     *)
(* SpecTransitions  the loop of State::state_transitions, an iteration a   *)
(*           step, from every value of State.                              *)
(***************************************************************************)
EXTENDS Integers, Sequences, FiniteSets, TLC

VARIABLES
    state,                  \* state::State (Inner.state in the driver)
    last,                   \* history: the most recent State operation
    role,                   \* the Role parameter of HttpConn<Role>
    in_buf,                 \* Inner.in_buf, a sequence of bytes
    in_buf_closed,          \* Inner.in_buf_closed
    client_wants_continue,  \* Inner.client_wants_continue
    body_reader,            \* Inner.body_reader
    wire,                   \* the bytes the peer has still to write
    call,                   \* history: the most recent driver call
    hist                    \* history: facts about the calls so far

connVars == <<role, in_buf, in_buf_closed, client_wants_continue,
              body_reader, wire, call, hist>>
vars == <<state, last, role, in_buf, in_buf_closed, client_wants_continue,
          body_reader, wire, call, hist>>

-----------------------------------------------------------------------------
(* src/state.rs *)

StateEvent == {"Request", "InfoResponse", "Response", "Data",
               "EndOfMessage", "ConnectionClosed"}

\* Option<SwitchEvent>
SwitchEvent == {"None", "Connect", "Upgrade"}

Client == {"Idle", "SendBody", "Done", "MustClose", "Closed",
           "MightSwitchProtocol", "SwitchedProtocol", "Error"}

Server == {"Idle", "SendResponse", "SendBody", "Done", "MustClose",
           "Closed", "SwitchedProtocol", "Error"}

\* The Err(..) arm of the two send functions.
Err == "Err"

\* A plausible slip: Request is also accepted while a body is being sent.
Client_send_mut(self, event) ==
    CASE (self = "Idle" /\ event = "Request")
           \/ (self = "SendBody" /\ event \in {"Data", "Request"}) -> "SendBody"
      [] self = "SendBody" /\ event = "EndOfMessage" -> "Done"
      [] self \in {"Idle", "Done", "MustClose", "Closed"}
           /\ event = "ConnectionClosed" -> "Closed"
      [] OTHER -> Err

\* A plausible slip: the (Closed, ConnectionClosed) pair is left out of the
\* match, so a second ConnectionClosed is an invalid transition.
Client_send_closed_mut(self, event) ==
    CASE (self = "Idle" /\ event = "Request")
           \/ (self = "SendBody" /\ event = "Data") -> "SendBody"
      [] self = "SendBody" /\ event = "EndOfMessage" -> "Done"
      [] /\ event = "ConnectionClosed"
         /\ self \in {"Idle", "Done", "MustClose"} -> "Closed"
      [] OTHER -> Err

Client_send(self, event) ==
    CASE (self = "Idle" /\ event = "Request")
           \/ (self = "SendBody" /\ event = "Data") -> "SendBody"
      [] self = "SendBody" /\ event = "EndOfMessage" -> "Done"
      [] /\ event = "ConnectionClosed"
         /\ self \in {"Idle", "Done", "MustClose", "Closed"} -> "Closed"
      [] OTHER -> Err

\* A plausible slip: the switch is not part of the match for a final Response.
Server_send_mut(self, event, switch) ==
    CASE (self = "Idle" /\ event = "Request" /\ switch = "None")
           \/ (self = "SendResponse" /\ event = "InfoResponse"
                 /\ switch = "None") -> "SendResponse"
      [] (self = "SendResponse" /\ event = "InfoResponse"
            /\ switch = "Upgrade")
           \/ (self = "SendResponse" /\ event = "Response"
                 /\ switch = "Connect") -> "SwitchedProtocol"
      [] (self = "Idle" /\ event = "Response")
           \/ (self = "SendResponse" /\ event = "Response")
           \/ (self = "SendBody" /\ event = "Data" /\ switch = "None")
           -> "SendBody"
      [] self = "SendBody" /\ event = "EndOfMessage" /\ switch = "None"
           -> "Done"
      [] /\ event = "ConnectionClosed" /\ switch = "None"
         /\ self \in {"Idle", "Done", "MustClose", "Closed"} -> "Closed"
      [] OTHER -> Err

\* A plausible slip: the Data arm also lists MustClose.
Server_send_reopen_mut(self, event, switch) ==
    CASE (self = "Idle" /\ event = "Request" /\ switch = "None")
           \/ (self = "SendResponse" /\ event = "InfoResponse"
                 /\ switch = "None") -> "SendResponse"
      [] (self = "SendResponse" /\ event = "InfoResponse"
            /\ switch = "Upgrade")
           \/ (self = "SendResponse" /\ event = "Response"
                 /\ switch = "Connect") -> "SwitchedProtocol"
      [] (self = "Idle" /\ event = "Response" /\ switch = "None")
           \/ (self = "SendResponse" /\ event = "Response"
                 /\ switch = "None")
           \/ (self \in {"SendBody", "MustClose"} /\ event = "Data"
                 /\ switch = "None")
           -> "SendBody"
      [] self = "SendBody" /\ event = "EndOfMessage" /\ switch = "None"
           -> "Done"
      [] /\ event = "ConnectionClosed" /\ switch = "None"
         /\ self \in {"Idle", "Done", "MustClose", "Closed"} -> "Closed"
      [] OTHER -> Err

Server_send(self, event, switch) ==
    CASE (self = "Idle" /\ event = "Request" /\ switch = "None")
           \/ (self = "SendResponse" /\ event = "InfoResponse"
                 /\ switch = "None") -> "SendResponse"
      [] (self = "SendResponse" /\ event = "InfoResponse"
            /\ switch = "Upgrade")
           \/ (self = "SendResponse" /\ event = "Response"
                 /\ switch = "Connect") -> "SwitchedProtocol"
      [] (self = "Idle" /\ event = "Response" /\ switch = "None")
           \/ (self = "SendResponse" /\ event = "Response"
                 /\ switch = "None")
           \/ (self = "SendBody" /\ event = "Data" /\ switch = "None")
           -> "SendBody"
      [] self = "SendBody" /\ event = "EndOfMessage" /\ switch = "None"
           -> "Done"
      [] /\ event = "ConnectionClosed" /\ switch = "None"
         /\ self \in {"Idle", "Done", "MustClose", "Closed"} -> "Closed"
      [] OTHER -> Err

\* State::new
State_new ==
    [client |-> "Idle", server |-> "Idle", keep_alive |-> TRUE,
     pending_connect |-> FALSE, pending_upgrade |-> FALSE]

states(self) == <<self.client, self.server>>

any_pending(self) == self.pending_connect \/ self.pending_upgrade

\* A plausible slip: the rule looks at pending_connect alone.
propose_rule_mut(self) ==
    IF self.pending_connect /\ self.client = "Done"
    THEN [self EXCEPT !.client = "MightSwitchProtocol"] ELSE self

\* The first rule of the loop body: a finished client with a proposal pending
\* waits for the server's answer.
propose_rule(self) ==
    IF any_pending(self) /\ self.client = "Done"
    THEN [self EXCEPT !.client = "MightSwitchProtocol"] ELSE self

\* A plausible slip: the rule tests for the wrong client state, so a waiting
\* client is never released.
settle_rule_mut(self) ==
    IF ~any_pending(self) /\ self.client = "Done"
    THEN [self EXCEPT !.client = "Done"] ELSE self

\* A plausible slip: the rule fires as soon as one of the two flags is clear.
settle_rule_either_mut(self) ==
    IF ~(self.pending_connect /\ self.pending_upgrade)
       /\ self.client = "MightSwitchProtocol"
    THEN [self EXCEPT !.client = "Done"] ELSE self

\* The second rule: with no proposal left the waiting client is Done.
settle_rule(self) ==
    IF ~any_pending(self) /\ self.client = "MightSwitchProtocol"
    THEN [self EXCEPT !.client = "Done"] ELSE self

\* A plausible slip: the keep-alive rule demotes the client only.
keep_alive_rule_mut(self) ==
    IF ~self.keep_alive /\ self.client = "Done"
    THEN [self EXCEPT !.client = "MustClose"] ELSE self

\* The third rule: without keep-alive Done becomes MustClose on either side.
keep_alive_rule(self) ==
    LET c == IF ~self.keep_alive /\ self.client = "Done"
             THEN [self EXCEPT !.client = "MustClose"] ELSE self
    IN  IF ~c.keep_alive /\ c.server = "Done"
        THEN [c EXCEPT !.server = "MustClose"] ELSE c

\* A plausible slip: the arm that lets the client follow the server's switch
\* is missing.
paired_rule_mut(self) ==
    CASE states(self) \in {<<"Closed", "Done">>, <<"Closed", "Idle">>,
                           <<"Error", "Done">>}
           -> [self EXCEPT !.server = "MustClose"]
      [] states(self) \in {<<"Done", "Closed">>, <<"Idle", "Closed">>,
                           <<"Done", "Error">>}
           -> [self EXCEPT !.client = "MustClose"]
      [] OTHER -> self

\* A plausible slip: the arms for a peer that is still Idle are missing.
paired_rule_idle_mut(self) ==
    CASE states(self) = <<"MightSwitchProtocol", "SwitchedProtocol">>
           -> [self EXCEPT !.client = "SwitchedProtocol"]
      [] states(self) \in {<<"Closed", "Done">>, <<"Error", "Done">>}
           -> [self EXCEPT !.server = "MustClose"]
      [] states(self) \in {<<"Done", "Closed">>, <<"Done", "Error">>}
           -> [self EXCEPT !.client = "MustClose"]
      [] OTHER -> self

\* The fourth rule: the match on the pair of states.
paired_rule(self) ==
    CASE states(self) = <<"MightSwitchProtocol", "SwitchedProtocol">>
           -> [self EXCEPT !.client = "SwitchedProtocol"]
      [] states(self) \in {<<"Closed", "Done">>, <<"Closed", "Idle">>,
                           <<"Error", "Done">>}
           -> [self EXCEPT !.server = "MustClose"]
      [] states(self) \in {<<"Done", "Closed">>, <<"Idle", "Closed">>,
                           <<"Done", "Error">>}
           -> [self EXCEPT !.client = "MustClose"]
      [] OTHER -> self

\* One pass through the body of the loop of State::state_transitions.
transitions_body(self) ==
    paired_rule(keep_alive_rule(settle_rule(propose_rule(self))))

\* State::state_transitions: repeat the body until a pass changes nothing.
RECURSIVE state_transitions(_)
state_transitions(self) ==
    LET next == transitions_body(self)
    IN  IF states(self) = states(next) THEN next
        ELSE state_transitions(next)

\* The result of a fallible State operation: Ok(st), or Err with the caller's
\* State (State is Copy and `self.state = op(..)?` assigns on Ok only).
Ok(st) == [ok |-> TRUE, st |-> st]
Fail(st) == [ok |-> FALSE, st |-> st]

\* A plausible slip: the Request is not passed on to the server's side.
client_event_sent_mut(self, event) ==
    LET c == Client_send(self.client, event)
    IN  IF c = Err THEN Fail(self)
        ELSE Ok([self EXCEPT !.client = c])

\* State::client_event up to, not including, the call of state_transitions.
client_event_sent(self, event) ==
    LET c == Client_send(self.client, event)
        s == IF event = "Request"
             THEN Server_send(self.server, "Request", "None")
             ELSE self.server
    IN  IF c = Err \/ s = Err THEN Fail(self)
        ELSE Ok([self EXCEPT !.client = c, !.server = s])

State_client_event(self, event) ==
    LET r == client_event_sent(self, event)
    IN  IF r.ok THEN Ok(state_transitions(r.st)) ELSE r

\* A plausible slip: either pending proposal lets either switch through.
switch_proposed_mut(self, switch) ==
    switch # "None" => any_pending(self)

\* The guard at the head of State::server_event.
switch_proposed(self, switch) ==
    /\ switch = "Connect" => self.pending_connect
    /\ switch = "Upgrade" => self.pending_upgrade

\* A plausible slip: a final Response clears pending_connect only.
server_event_flags_mut(self, event, switch) ==
    IF switch = "None" /\ event = "Response"
    THEN [self EXCEPT !.pending_connect = FALSE]
    ELSE self

\* The pending_connect and pending_upgrade fields State::server_event builds.
server_event_flags(self, event, switch) ==
    IF switch = "None" /\ event = "Response"
    THEN [self EXCEPT !.pending_connect = FALSE, !.pending_upgrade = FALSE]
    ELSE self

\* State::server_event up to, not including, the call of state_transitions.
server_event_sent(self, event, switch) ==
    IF ~switch_proposed(self, switch) THEN Fail(self)
    ELSE LET s == Server_send(self.server, event, switch)
         IN  IF s = Err THEN Fail(self)
             ELSE Ok([server_event_flags(self, event, switch)
                         EXCEPT !.server = s])

State_server_event(self, event, switch) ==
    LET r == server_event_sent(self, event, switch)
    IN  IF r.ok THEN Ok(state_transitions(r.st)) ELSE r

client_error(self) == state_transitions([self EXCEPT !.client = "Error"])

server_error(self) == state_transitions([self EXCEPT !.server = "Error"])

connect_proposal(self) ==
    state_transitions([self EXCEPT !.pending_connect = TRUE])

upgrade_proposal(self) ==
    state_transitions([self EXCEPT !.pending_upgrade = TRUE])

disable_keep_alive(self) ==
    state_transitions([self EXCEPT !.keep_alive = FALSE])

\* A plausible slip: the cycle restarts as soon as the server is Done.
start_next_cycle_mut(self) ==
    IF self.server # "Done" THEN Fail(self)
    ELSE Ok([self EXCEPT !.client = "Idle", !.server = "Idle"])

start_next_cycle(self) ==
    IF <<self.client, self.server>> # <<"Done", "Done">> THEN Fail(self)
    ELSE Ok([self EXCEPT !.client = "Idle", !.server = "Idle"])

-----------------------------------------------------------------------------
(* Bytes.  A byte is a one-character string, and the string "FF" is the    *)
(* byte 0xFF, the one byte of the model that is not ASCII; Bytes and       *)
(* BytesMut are sequences of bytes.                                        *)

CR == "\r"
LF == "\n"
SP == " "
HTAB == "\t"
CRLF == <<CR, LF>>

\* u8::to_ascii_lowercase
to_ascii_lowercase(b) ==
    LET UpperCase == <<"A", "B", "C", "D", "E", "F", "G", "H", "I", "J",
                       "K", "L", "M", "N", "O", "P", "Q", "R", "S", "T",
                       "U", "V", "W", "X", "Y", "Z">>
        LowerCase == <<"a", "b", "c", "d", "e", "f", "g", "h", "i", "j",
                       "k", "l", "m", "n", "o", "p", "q", "r", "s", "t",
                       "u", "v", "w", "x", "y", "z">>
    IN  IF \E i \in DOMAIN UpperCase : UpperCase[i] = b
        THEN LowerCase[CHOOSE i \in DOMAIN UpperCase : UpperCase[i] = b]
        ELSE b

\* str::eq_ignore_ascii_case
eq_ignore_ascii_case(a, b) ==
    /\ Len(a) = Len(b)
    /\ \A i \in 1..Len(a) :
           to_ascii_lowercase(a[i]) = to_ascii_lowercase(b[i])

\* Option
None == [some |-> FALSE]
Some(v) == [some |-> TRUE, v |-> v]

\* str::from_utf8(..).ok(): no UTF-8 text holds the byte 0xFF.
from_utf8(s) ==
    IF \E i \in 1..Len(s) : s[i] = "FF" THEN None ELSE Some(s)

IsWhitespace(b) == b \in {SP, HTAB, CR, LF}

RECURSIVE trim_start(_)
trim_start(s) ==
    IF s # <<>> /\ IsWhitespace(Head(s)) THEN trim_start(Tail(s)) ELSE s

RECURSIVE trim_end(_)
trim_end(s) ==
    IF s # <<>> /\ IsWhitespace(s[Len(s)])
    THEN trim_end(SubSeq(s, 1, Len(s) - 1)) ELSE s

\* str::trim
trim(s) == trim_end(trim_start(s))

\* The 1-based index of the first occurrence of a byte, 0 when absent.
position(s, b) ==
    IF \E i \in 1..Len(s) : s[i] = b
    THEN CHOOSE i \in 1..Len(s) :
             s[i] = b /\ \A j \in 1..(i - 1) : s[j] # b
    ELSE 0

\* str::split on one character: the pieces between the separators.
RECURSIVE split(_, _)
split(s, sep) ==
    LET i == position(s, sep)
    IN  IF i = 0 THEN <<s>>
        ELSE <<SubSeq(s, 1, i - 1)>> \o split(SubSeq(s, i + 1, Len(s)), sep)

\* twoway::find_bytes: the 0-based offset of the first occurrence of pat.
find_bytes(buf, pat) ==
    LET at(n) == SubSeq(buf, n + 1, n + Len(pat)) = pat
        last_n == Len(buf) - Len(pat)
    IN  IF \E n \in 0..last_n : at(n)
        THEN Some(CHOOSE n \in 0..last_n :
                      at(n) /\ \A m \in 0..(n - 1) : ~at(m))
        ELSE None

Digits == <<"0", "1", "2", "3", "4", "5", "6", "7", "8", "9">>

IsDigit(b) == \E i \in DOMAIN Digits : Digits[i] = b

DigitValue(b) == (CHOOSE i \in DOMAIN Digits : Digits[i] = b) - 1

RECURSIVE DecimalValue(_)
DecimalValue(s) ==
    IF s = <<>> THEN 0
    ELSE 10 * DecimalValue(SubSeq(s, 1, Len(s) - 1)) + DigitValue(s[Len(s)])

\* str::parse::<usize>: decimal digits after an optional plus sign.
parse_usize(s) ==
    LET digits == IF s # <<>> /\ Head(s) = "+" THEN Tail(s) ELSE s
    IN  IF digits # <<>> /\ \A i \in 1..Len(digits) : IsDigit(digits[i])
        THEN Some(DecimalValue(digits))
        ELSE None

-----------------------------------------------------------------------------
(* src/util.rs.  A HeaderMap is the sequence of its entries in iteration   *)
(* order, each [name, value] with the name in lower case.                  *)

H_CONNECTION ==
    <<"c", "o", "n", "n", "e", "c", "t", "i", "o", "n">>
H_TRANSFER_ENCODING ==
    <<"t", "r", "a", "n", "s", "f", "e", "r", "-", "e", "n", "c",
      "o", "d", "i", "n", "g">>
H_CONTENT_LENGTH ==
    <<"c", "o", "n", "t", "e", "n", "t", "-", "l", "e", "n", "g",
      "t", "h">>
H_UPGRADE ==
    <<"u", "p", "g", "r", "a", "d", "e">>
H_EXPECT ==
    <<"e", "x", "p", "e", "c", "t">>
T_CLOSE ==
    <<"c", "l", "o", "s", "e">>
T_CHUNKED ==
    <<"c", "h", "u", "n", "k", "e", "d">>
T_100_CONTINUE ==
    <<"1", "0", "0", "-", "c", "o", "n", "t", "i", "n", "u", "e">>

\* HeaderMap::get_all: the values of one name, in order.
get_all(headers, name) ==
    LET vals == SelectSeq(headers, LAMBDA h : h.name = name)
    IN  [i \in 1..Len(vals) |-> vals[i].value]

contains_key(headers, name) == get_all(headers, name) # <<>>

\* Version is ordered HTTP_09 < HTTP_10 < HTTP_11 < HTTP_2; a value that is
\* not UTF-8 counts for nothing.
can_keep_alive(version, headers) ==
    ~ \/ version \in {"HTTP_09", "HTTP_10"}
      \/ \E i \in 1..Len(get_all(headers, H_CONNECTION)) :
             LET val == get_all(headers, H_CONNECTION)[i]
                 toks == split(val, ",")
             IN  /\ from_utf8(val).some
                 /\ \E k \in 1..Len(toks) :
                        eq_ignore_ascii_case(trim(toks[k]), T_CLOSE)

is_chunked(headers) ==
    LET vals == get_all(headers, H_TRANSFER_ENCODING)
    IN  /\ vals # <<>>
        /\ from_utf8(vals[Len(vals)]).some
        /\ LET toks == split(vals[Len(vals)], ",")
           IN  eq_ignore_ascii_case(trim(toks[Len(toks)]), T_CHUNKED)

maybe_content_length(headers) ==
    LET vals == get_all(headers, H_CONTENT_LENGTH)
    IN  IF vals = <<>> THEN None ELSE parse_usize(vals[1])

-----------------------------------------------------------------------------
(* src/body.rs: FramingMethod *)

FramingContentLength(n) == [kind |-> "ContentLength", n |-> n]
FramingChunked == [kind |-> "Chunked", n |-> 0]
FramingHttp10 == [kind |-> "Http10", n |-> 0]

-----------------------------------------------------------------------------
(* src/req.rs.  A ReqHead is [method, uri, version, headers]; method and   *)
(* uri are the bytes of the method token and of the request-target.        *)

V_HTTP_11 ==
    <<"H", "T", "T", "P", "/", "1", ".", "1">>
V_HTTP_10 ==
    <<"H", "T", "T", "P", "/", "1", ".", "0">>
M_CONNECT ==
    <<"C", "O", "N", "N", "E", "C", "T">>

\* The bytes httparse accepts in a method or a header name.
IsToken(b) ==
    b \notin {SP, HTAB, CR, LF, ":", ";", ",", "(", ")", "<", ">", "@",
              "/", "[", "]", "?", "=", "{", "}", "\"", "\\"}

IsTokenSeq(s) == s # <<>> /\ \A i \in 1..Len(s) : IsToken(s[i])

\* The text between the CRLFs of a head.
RECURSIVE lines_of(_)
lines_of(buf) ==
    LET from(n) ==
            IF ~n.some THEN <<buf>>
            ELSE <<SubSeq(buf, 1, n.v)>>
                     \o lines_of(SubSeq(buf, n.v + 3, Len(buf)))
    IN  from(find_bytes(buf, CRLF))

\* Leading and trailing optional whitespace of a header value.
RECURSIVE trim_ows_start(_)
trim_ows_start(s) ==
    IF s # <<>> /\ Head(s) \in {SP, HTAB} THEN trim_ows_start(Tail(s))
    ELSE s

RECURSIVE trim_ows_end(_)
trim_ows_end(s) ==
    IF s # <<>> /\ s[Len(s)] \in {SP, HTAB}
    THEN trim_ows_end(SubSeq(s, 1, Len(s) - 1)) ELSE s

\* httparse on one header line: "name: value", no whitespace in the name
\* (so no folded line), the value without the whitespace around it.
parse_header_line(line) ==
    LET at(c) ==
            IF c = 0 \/ ~IsTokenSeq(SubSeq(line, 1, c - 1))
            THEN [ok |-> FALSE]
            ELSE [ok |-> TRUE, name |-> SubSeq(line, 1, c - 1),
                  value |-> trim_ows_end(trim_ows_start(
                                SubSeq(line, c + 1, Len(line))))]
    IN  at(position(line, ":"))

\* httparse::parse_headers on the header lines of a block that ends with an
\* empty line: the headers before the first empty line.
header_lines(lines) ==
    LET upto(e) == IF e = 0 THEN lines ELSE SubSeq(lines, 1, e - 1)
    IN  upto(position(lines, <<>>))

\* httparse::Request::parse on a buffer that ends with CRLF CRLF: Complete
\* with the method, path, minor version and headers, or Partial (nothing but
\* empty lines), or an error.
Request_parse(buf) ==
    LET parse(parts, parsed) ==
            IF \/ Len(parts) # 3
               \/ ~IsTokenSeq(parts[1])
               \/ parts[2] = <<>>
               \/ parts[3] \notin {V_HTTP_11, V_HTTP_10}
               \/ \E i \in 1..Len(parsed) : ~parsed[i].ok
            THEN [status |-> "Err"]
            ELSE [status |-> "Complete",
                  method |-> parts[1],
                  path |-> parts[2],
                  version |-> IF parts[3] = V_HTTP_11 THEN 1 ELSE 0,
                  headers |-> [i \in 1..Len(parsed) |->
                                  [name |-> parsed[i].name,
                                   value |-> parsed[i].value]]]
        headers(hdrs) ==
            [i \in 1..Len(hdrs) |-> parse_header_line(hdrs[i])]
        head(lines) ==
            IF lines[1] = <<>> THEN [status |-> "Partial"]
            ELSE parse(split(lines[1], SP),
                       headers(header_lines(Tail(lines))))
    IN  head(lines_of(buf))

\* HeaderName::from_bytes: the name in lower case.
HeaderName_from_bytes(name) ==
    [i \in 1..Len(name) |-> to_ascii_lowercase(name[i])]

\* HeaderMap::append: a value of a name the map holds already follows the
\* values of that name; a new name goes to the end.
HeaderMap_append(map, name, value) ==
    LET same == {i \in 1..Len(map) : map[i].name = name}
        entry == [name |-> name, value |-> value]
    IN  IF same = {} THEN Append(map, entry)
        ELSE LET at == CHOOSE i \in same : \A j \in same : j <= i
             IN  SubSeq(map, 1, at) \o <<entry>>
                     \o SubSeq(map, at + 1, Len(map))

\* The loop of from_buf that fills the HeaderMap.
RECURSIVE HeaderMap_collect(_, _)
HeaderMap_collect(map, hdrs) ==
    IF hdrs = <<>> THEN map
    ELSE HeaderMap_collect(
             HeaderMap_append(map, HeaderName_from_bytes(hdrs[1].name),
                              hdrs[1].value),
             Tail(hdrs))

ReqHead(method, uri, version, headers) ==
    [method |-> method, uri |-> uri, version |-> version,
     headers |-> headers]

NoReqHead == ReqHead(<<>>, <<>>, "HTTP_11", <<>>)

\* ReqHead::from_buf.  kind is "None" (no CRLF CRLF yet: nothing consumed),
\* "Some" (a head), "Err" (the parser's error) or "Panic" (unwrap of a
\* Partial parse); rest is the buffer left behind.
ReqHead_from_buf(buf) ==
    LET head(pr, rest) ==
            CASE pr.status = "Err"
                   -> [kind |-> "Err", head |-> NoReqHead, rest |-> rest]
              [] pr.status = "Partial"
                   -> [kind |-> "Panic", head |-> NoReqHead, rest |-> rest]
              [] OTHER
                   -> [kind |-> "Some",
                       head |-> ReqHead(
                           pr.method, pr.path,
                           IF pr.version = 1 THEN "HTTP_11" ELSE "HTTP_10",
                           HeaderMap_collect(<<>>, pr.headers)),
                       rest |-> rest]
        from(n) ==
            IF ~n.some
            THEN [kind |-> "None", head |-> NoReqHead, rest |-> buf]
            ELSE head(Request_parse(SubSeq(buf, 1, n.v + 4)),
                      SubSeq(buf, n.v + 5, Len(buf)))
    IN  from(find_bytes(buf, CRLF \o CRLF))

ReqHead_can_keep_alive(req) == can_keep_alive(req.version, req.headers)

\* A plausible slip: a Content-Length that parses wins over chunked.
ReqHead_framing_method_mut(req) ==
    LET n == maybe_content_length(req.headers)
    IN  IF n.some THEN FramingContentLength(n.v)
        ELSE IF is_chunked(req.headers) THEN FramingChunked
        ELSE FramingContentLength(0)

ReqHead_framing_method(req) ==
    IF is_chunked(req.headers) THEN FramingChunked
    ELSE LET n == maybe_content_length(req.headers)
         IN  FramingContentLength(IF n.some THEN n.v ELSE 0)

-----------------------------------------------------------------------------
(* src/event.rs and the body readers of src/body.rs.  What a reader        *)
(* returns is Ok(None), Ok(Some(Data)), Ok(Some(EndOfMessage)) or Err.     *)

RetNone == [kind |-> "None"]
RetData(data) == [kind |-> "Data", data |-> data]
RetEndOfMessage(trailers) == [kind |-> "EndOfMessage", trailers |-> trailers]
RetErr(err) == [kind |-> "Err", err |-> err]

\* A step of a reader: the reader and the buffer it leaves, and its result.
Read(reader, buf, ret) == [reader |-> reader, buf |-> buf, ret |-> ret]

NoReader == [kind |-> "NoReader"]
ReaderContentLength(rem) == [kind |-> "ContentLength", rem |-> rem]
ReaderChunked(st, rem) == [kind |-> "Chunked", st |-> st, rem |-> rem]
ReaderHttp10 == [kind |-> "Http10"]

\* impl From<FramingMethod> for BodyReader
BodyReader_from(m) ==
    CASE m.kind = "ContentLength" -> ReaderContentLength(m.n)
      [] m.kind = "Chunked" -> ReaderChunked("Start", 0)
      [] OTHER -> ReaderHttp10

Min(a, b) == IF a <= b THEN a ELSE b

\* BytesMut::split_to: the first n bytes, and BytesMut::advance past them.
split_to(buf, n) == SubSeq(buf, 1, n)
advance(buf, n) == SubSeq(buf, n + 1, Len(buf))

\* A plausible slip: the whole buffer is handed out, whatever rem is.
ContentLength_next_event_mut(r, buf) ==
    IF r.rem = 0 THEN Read(r, buf, RetEndOfMessage(None))
    ELSE IF buf = <<>> THEN Read(r, buf, RetNone)
    ELSE Read(ReaderContentLength(r.rem - Min(r.rem, Len(buf))), <<>>,
              RetData(buf))

ContentLength_next_event(r, buf) ==
    IF r.rem = 0 THEN Read(r, buf, RetEndOfMessage(None))
    ELSE LET n == Min(r.rem, Len(buf))
         IN  IF n = 0 THEN Read(r, buf, RetNone)
             ELSE Read(ReaderContentLength(r.rem - n), advance(buf, n),
                       RetData(split_to(buf, n)))

HexDigits == <<"0", "1", "2", "3", "4", "5", "6", "7", "8", "9",
               "a", "b", "c", "d", "e", "f">>

IsHexDigit(b) ==
    \E i \in DOMAIN HexDigits : HexDigits[i] = to_ascii_lowercase(b)

HexValue(b) ==
    (CHOOSE i \in DOMAIN HexDigits : HexDigits[i] = to_ascii_lowercase(b))
        - 1

\* The loop of httparse::parse_chunk_size from byte i + 1 on: hexadecimal
\* digits, then optional whitespace and an extension after ";", up to CRLF.
\* count is the number of digits read, of which at most 16 are allowed.
RECURSIVE chunk_size_loop(_, _, _, _, _, _)
chunk_size_loop(buf, i, size, in_chunk_size, in_ext, count) ==
    IF i >= Len(buf) THEN [status |-> "Partial"]
    ELSE LET b == buf[i + 1]
         IN  CASE IsHexDigit(b) /\ in_chunk_size
                    -> IF count > 15 THEN [status |-> "Err"]
                       ELSE chunk_size_loop(buf, i + 1,
                                            size * 16 + HexValue(b),
                                            in_chunk_size, in_ext, count + 1)
               [] b = CR
                    -> IF i + 1 >= Len(buf) THEN [status |-> "Partial"]
                       ELSE IF buf[i + 2] = LF
                       THEN [status |-> "Complete", consume |-> i + 2,
                             size |-> size]
                       ELSE [status |-> "Err"]
               [] b = ";" /\ ~in_ext
                    -> chunk_size_loop(buf, i + 1, size, FALSE, TRUE, count)
               [] b \in {HTAB, SP} /\ ~in_ext /\ ~in_chunk_size
                    -> chunk_size_loop(buf, i + 1, size, in_chunk_size,
                                       in_ext, count)
               [] b \in {HTAB, SP} /\ in_chunk_size
                    -> chunk_size_loop(buf, i + 1, size, FALSE, in_ext,
                                       count)
               [] in_ext
                    -> chunk_size_loop(buf, i + 1, size, in_chunk_size,
                                       in_ext, count)
               [] OTHER -> [status |-> "Err"]

\* httparse::parse_chunk_size
parse_chunk_size(buf) == chunk_size_loop(buf, 0, 0, TRUE, FALSE, 0)

\* httparse::parse_headers on a trailer block: Complete once the empty line
\* that ends the block has arrived, with the bytes up to and including it.
parse_headers(buf) ==
    IF Len(buf) >= 2 /\ SubSeq(buf, 1, 2) = CRLF
    THEN [status |-> "Complete", consume |-> 2, headers |-> <<>>]
    ELSE LET block(n, parsed) ==
                 IF \E i \in 1..Len(parsed) : ~parsed[i].ok
                 THEN [status |-> "Err"]
                 ELSE [status |-> "Complete", consume |-> n.v + 4,
                       headers |-> [i \in 1..Len(parsed) |->
                                       [name |-> parsed[i].name,
                                        value |-> parsed[i].value]]]
             headers(hdrs) ==
                 [i \in 1..Len(hdrs) |-> parse_header_line(hdrs[i])]
             from(n) ==
                 IF ~n.some THEN [status |-> "Partial"]
                 ELSE block(n, headers(header_lines(
                                   lines_of(SubSeq(buf, 1, n.v)))))
         IN  from(find_bytes(buf, CRLF \o CRLF))

RECURSIVE Chunked_next_event(_, _)

\* A plausible slip: a drained chunk leads back to Start at once, so that the
\* CR LF behind the chunk is read as a chunk size.
Chunked_next_event_mut(r, buf) ==
    CASE r.st = "Start" ->
           LET start(p) ==
                   CASE p.status = "Err"
                          -> Read(r, buf, RetErr("InvalidChunkSize"))
                     [] p.status = "Partial" -> Read(r, buf, RetNone)
                     [] OTHER
                          -> Chunked_next_event(
                                 IF p.size = 0
                                 THEN ReaderChunked("Trailers", 0)
                                 ELSE ReaderChunked("Data", p.size),
                                 advance(buf, p.consume))
           IN  start(parse_chunk_size(buf))
      [] r.st = "Data" ->
           LET n == Min(r.rem, Len(buf))
           IN  IF n = 0 THEN Read(r, buf, RetNone)
               ELSE Read(IF r.rem = n THEN ReaderChunked("Start", 0)
                         ELSE ReaderChunked("Data", r.rem - n),
                         advance(buf, n), RetData(split_to(buf, n)))
      [] r.st = "End" ->
           IF Len(buf) < 2 THEN Read(r, buf, RetNone)
           ELSE Chunked_next_event(ReaderChunked("Start", 0),
                                   advance(buf, 2))
      [] OTHER ->
           LET trailers(p) ==
                   CASE p.status = "Err"
                          -> Read(r, buf, RetErr("HttpParse"))
                     [] p.status = "Partial" -> Read(r, buf, RetNone)
                     [] OTHER
                          -> Read(r, advance(buf, p.consume),
                                  RetEndOfMessage(
                                      IF p.headers = <<>> THEN None
                                      ELSE Some(HeaderMap_collect(
                                                    <<>>, p.headers))))
           IN  trailers(parse_headers(buf))

\* Chunked::next_event; `continue` is the recursive call.
Chunked_next_event(r, buf) ==
    CASE r.st = "Start" ->
           LET start(p) ==
                   CASE p.status = "Err"
                          -> Read(r, buf, RetErr("InvalidChunkSize"))
                     [] p.status = "Partial" -> Read(r, buf, RetNone)
                     [] OTHER
                          -> Chunked_next_event(
                                 IF p.size = 0
                                 THEN ReaderChunked("Trailers", 0)
                                 ELSE ReaderChunked("Data", p.size),
                                 advance(buf, p.consume))
           IN  start(parse_chunk_size(buf))
      [] r.st = "Data" ->
           LET n == Min(r.rem, Len(buf))
           IN  IF n = 0 THEN Read(r, buf, RetNone)
               ELSE Read(IF r.rem = n THEN ReaderChunked("End", 0)
                         ELSE ReaderChunked("Data", r.rem - n),
                         advance(buf, n), RetData(split_to(buf, n)))
      [] r.st = "End" ->
           IF Len(buf) < 2 THEN Read(r, buf, RetNone)
           ELSE Chunked_next_event(ReaderChunked("Start", 0),
                                   advance(buf, 2))
      [] OTHER ->
           LET trailers(p) ==
                   CASE p.status = "Err"
                          -> Read(r, buf, RetErr("HttpParse"))
                     [] p.status = "Partial" -> Read(r, buf, RetNone)
                     [] OTHER
                          -> Read(r, advance(buf, p.consume),
                                  RetEndOfMessage(
                                      IF p.headers = <<>> THEN None
                                      ELSE Some(HeaderMap_collect(
                                                    <<>>, p.headers))))
           IN  trailers(parse_headers(buf))

Http10_next_event(r, buf) ==
    IF buf = <<>> THEN Read(r, buf, RetNone)
    ELSE Read(r, <<>>, RetData(buf))

BodyReader_next_event(r, buf) ==
    CASE r.kind = "ContentLength" -> ContentLength_next_event(r, buf)
      [] r.kind = "Chunked" -> Chunked_next_event(r, buf)
      [] OTHER -> Http10_next_event(r, buf)

\* A plausible slip: the end of the stream ends a ContentLength body.
BodyReader_eof_mut(r) ==
    IF r.kind = "Chunked"
    THEN RetErr("ConnectionClosedPrematurely")
    ELSE RetEndOfMessage(None)

BodyReader_eof(r) ==
    IF r.kind \in {"ContentLength", "Chunked"}
    THEN RetErr("ConnectionClosedPrematurely")
    ELSE RetEndOfMessage(None)

-----------------------------------------------------------------------------
(* Serialization: ReqHead::write_to_buf, src/resp.rs, Event::into_buf.     *)

\* The bytes "name: value CRLF" of every entry, in iteration order.
RECURSIVE write_headers(_)
write_headers(headers) ==
    IF headers = <<>> THEN <<>>
    ELSE headers[1].name \o <<":", SP>> \o headers[1].value \o CRLF
             \o write_headers(Tail(headers))

\* Uri::path: the request-target up to "?" in origin form and "*"; empty
\* for a target in authority form.
Uri_path(uri) ==
    IF uri # <<>> /\ Head(uri) \in {"/", "*"}
    THEN LET q == position(uri, "?")
         IN  IF q = 0 THEN uri ELSE SubSeq(uri, 1, q - 1)
    ELSE <<>>

\* Uri::query
Uri_query(uri) ==
    LET q == position(uri, "?")
    IN  IF uri # <<>> /\ Head(uri) = "/" /\ q # 0
        THEN Some(SubSeq(uri, q + 1, Len(uri)))
        ELSE None

\* ReqHead::write_to_buf on an empty egress buffer; unreachable!() for any
\* version but HTTP/1.1.
ReqHead_write_to_buf(req) ==
    IF req.version # "HTTP_11" THEN [panic |-> TRUE, bytes |-> <<>>]
    ELSE [panic |-> FALSE,
          bytes |-> req.method \o <<SP>> \o Uri_path(req.uri)
                    \o (IF Uri_query(req.uri).some
                        THEN <<"?">> \o Uri_query(req.uri).v ELSE <<>>)
                    \o <<SP>> \o V_HTTP_11 \o CRLF
                    \o write_headers(req.headers) \o CRLF]

RespHead(status, version, headers) ==
    [status |-> status, version |-> version, headers |-> headers]

\* StatusCode::canonical_reason, for the codes the model sends.
canonical_reason(status) ==
    CASE status = 100
           -> Some(<<"C", "o", "n", "t", "i", "n", "u", "e">>)
      [] status = 101
           -> Some(<<"S", "w", "i", "t", "c", "h", "i", "n", "g", " ",
                     "P", "r", "o", "t", "o", "c", "o", "l", "s">>)
      [] status = 200 -> Some(<<"O", "K">>)
      [] status = 204
           -> Some(<<"N", "o", " ", "C", "o", "n", "t", "e", "n", "t">>)
      [] status = 304
           -> Some(<<"N", "o", "t", " ", "M", "o", "d", "i", "f", "i", "e",
                     "d">>)
      [] status = 404
           -> Some(<<"N", "o", "t", " ", "F", "o", "u", "n", "d">>)
      [] OTHER -> None

\* StatusCode::as_str: three decimal digits.
status_as_str(status) ==
    <<Digits[(status \div 100) + 1], Digits[((status \div 10) % 10) + 1],
      Digits[(status % 10) + 1]>>

\* StatusCode::is_success
is_success(status) == 200 <= status /\ status < 300

\* RespHead::write_to_buf on an empty egress buffer.
RespHead_write_to_buf(resp) ==
    IF resp.version # "HTTP_11" THEN [panic |-> TRUE, bytes |-> <<>>]
    ELSE [panic |-> FALSE,
          bytes |-> V_HTTP_11 \o <<SP>> \o status_as_str(resp.status)
                    \o (IF canonical_reason(resp.status).some
                        THEN <<SP>> \o canonical_reason(resp.status).v
                        ELSE <<>>)
                    \o CRLF \o write_headers(resp.headers) \o CRLF]

\* httparse::Response::parse on a buffer that ends with CRLF CRLF: the
\* version, a space, three digits, then the end of the line or a space and
\* the reason phrase; the header lines as in a request.
Response_parse(buf) ==
    LET parse(line, parsed) ==
            IF \/ Len(line) < 12
               \/ SubSeq(line, 1, 8) \notin {V_HTTP_11, V_HTTP_10}
               \/ line[9] # SP
               \/ \E i \in 10..12 : ~IsDigit(line[i])
               \/ Len(line) > 12 /\ line[13] # SP
               \/ \E i \in 1..Len(parsed) : ~parsed[i].ok
            THEN [status |-> "Err"]
            ELSE [status |-> "Complete",
                  version |-> IF SubSeq(line, 1, 8) = V_HTTP_11 THEN 1 ELSE 0,
                  code |-> DecimalValue(SubSeq(line, 10, 12)),
                  headers |-> [i \in 1..Len(parsed) |->
                                  [name |-> parsed[i].name,
                                   value |-> parsed[i].value]]]
        headers(hdrs) ==
            [i \in 1..Len(hdrs) |-> parse_header_line(hdrs[i])]
        head(lines) ==
            IF lines[1] = <<>> THEN [status |-> "Partial"]
            ELSE parse(lines[1], headers(header_lines(Tail(lines))))
    IN  head(lines_of(buf))

NoRespHead == RespHead(0, "HTTP_11", <<>>)

\* RespHead::from_buf, with the kinds of ReqHead_from_buf; StatusCode::from_u16
\* refuses a code outside 100..599.
RespHead_from_buf(buf) ==
    LET head(pr, rest) ==
            CASE pr.status = "Err"
                   -> [kind |-> "Err", head |-> NoRespHead, rest |-> rest]
              [] pr.status = "Partial"
                   -> [kind |-> "Panic", head |-> NoRespHead, rest |-> rest]
              [] pr.code < 100 \/ pr.code >= 600
                   -> [kind |-> "Err", head |-> NoRespHead, rest |-> rest]
              [] OTHER
                   -> [kind |-> "Some",
                       head |-> RespHead(
                           pr.code,
                           IF pr.version = 1 THEN "HTTP_11" ELSE "HTTP_10",
                           HeaderMap_collect(<<>>, pr.headers)),
                       rest |-> rest]
        from(n) ==
            IF ~n.some
            THEN [kind |-> "None", head |-> NoRespHead, rest |-> buf]
            ELSE head(Response_parse(SubSeq(buf, 1, n.v + 4)),
                      SubSeq(buf, n.v + 5, Len(buf)))
    IN  from(find_bytes(buf, CRLF \o CRLF))

RespHead_can_keep_alive(resp) == can_keep_alive(resp.version, resp.headers)

\* A plausible slip: the headers are looked at before the status and the
\* method of the request.
RespHead_framing_method_mut(resp, method) ==
    IF is_chunked(resp.headers) THEN FramingChunked
    ELSE IF maybe_content_length(resp.headers).some
    THEN FramingContentLength(maybe_content_length(resp.headers).v)
    ELSE IF \/ resp.status \in {204, 304}
            \/ method = <<"H", "E", "A", "D">>
            \/ method = M_CONNECT /\ is_success(resp.status)
    THEN FramingContentLength(0)
    ELSE FramingHttp10

\* RespHead::framing_method for the response to a request of that method.
RespHead_framing_method(resp, method) ==
    IF \/ resp.status = 204
       \/ resp.status = 304
       \/ method = <<"H", "E", "A", "D">>
       \/ method = M_CONNECT /\ is_success(resp.status)
    THEN FramingContentLength(0)
    ELSE IF is_chunked(resp.headers) THEN FramingChunked
    ELSE LET n == maybe_content_length(resp.headers)
         IN  IF n.some THEN FramingContentLength(n.v) ELSE FramingHttp10

\* Event
EvRequest(req) == [kind |-> "Request", head |-> req]
EvInfoResponse(resp) == [kind |-> "InfoResponse", head |-> resp]
EvResponse(resp) == [kind |-> "Response", head |-> resp]
EvData(data) == [kind |-> "Data", data |-> data]
EvEndOfMessage(trailers) == [kind |-> "EndOfMessage", trailers |-> trailers]
EvConnectionClosed == [kind |-> "ConnectionClosed"]

\* Event::to_state_event
to_state_event(event) == event.kind

\* Event::into_buf on an empty egress buffer.
Event_into_buf(event) ==
    CASE event.kind = "Request" -> ReqHead_write_to_buf(event.head)
      [] event.kind \in {"InfoResponse", "Response"}
           -> RespHead_write_to_buf(event.head)
      [] event.kind = "Data" -> [panic |-> FALSE, bytes |-> event.data]
      [] event.kind = "EndOfMessage" /\ event.trailers.some
           -> [panic |-> FALSE, bytes |-> write_headers(event.trailers.v)]
      [] OTHER -> [panic |-> FALSE, bytes |-> <<>>]

-----------------------------------------------------------------------------
(* src/conn.rs: Inner.  The operations are functions of the fields they    *)
(* read, returning the fields they write.                                  *)

\* The value Inner::client_event gives client_wants_continue for a Request.
expects_continue(req) ==
    LET vals == get_all(req.headers, H_EXPECT)
    IN  /\ vals # <<>>
        /\ from_utf8(vals[Len(vals)]).some
        /\ eq_ignore_ascii_case(trim(vals[Len(vals)]), T_100_CONTINUE)

\* The proposals Inner::client_event records before it submits the event.
client_event_proposals(st, event) ==
    IF event.kind # "Request" THEN st
    ELSE LET c == IF event.head.method = M_CONNECT
                  THEN connect_proposal(st) ELSE st
         IN  IF contains_key(event.head.headers, H_UPGRADE)
             THEN upgrade_proposal(c) ELSE c

\* What Inner::client_event does once the state machine accepted the event.
client_event_post(st, cwc, event) ==
    CASE event.kind = "Request"
           -> [state |-> IF ~ReqHead_can_keep_alive(event.head)
                         THEN disable_keep_alive(st) ELSE st,
               cwc |-> expects_continue(event.head)]
      [] event.kind \in {"Data", "EndOfMessage"}
           -> [state |-> st, cwc |-> FALSE]
      [] OTHER -> [state |-> st, cwc |-> cwc]

\* Inner::client_event: [ok, state, cwc].
Inner_client_event(st, cwc, event) ==
    LET done(post) == [ok |-> TRUE, state |-> post.state, cwc |-> post.cwc]
        submitted(proposed, r) ==
            IF ~r.ok THEN [ok |-> FALSE, state |-> proposed, cwc |-> cwc]
            ELSE done(client_event_post(r.st, cwc, event))
        submit(proposed) ==
            submitted(proposed,
                      State_client_event(proposed, to_state_event(event)))
    IN  submit(client_event_proposals(st, event))

\* A plausible slip: the status of the final Response is not looked at.
derive_switch_mut(st, event) ==
    CASE event.kind = "InfoResponse" /\ event.head.status = 101 -> "Upgrade"
      [] event.kind = "Response" /\ st.pending_connect -> "Connect"
      [] OTHER -> "None"

\* The switch Inner::server_event derives from the event.
derive_switch(st, event) ==
    CASE event.kind = "InfoResponse" /\ event.head.status = 101 -> "Upgrade"
      [] /\ event.kind = "Response"
         /\ st.pending_connect
         /\ is_success(event.head.status) -> "Connect"
      [] OTHER -> "None"

\* What Inner::server_event does once the state machine accepted the event.
server_event_post(st, cwc, event) ==
    CASE event.kind = "InfoResponse" -> [state |-> st, cwc |-> FALSE]
      [] event.kind = "Response"
           -> [state |-> IF ~RespHead_can_keep_alive(event.head)
                         THEN disable_keep_alive(st) ELSE st,
               cwc |-> FALSE]
      [] OTHER -> [state |-> st, cwc |-> cwc]

\* Inner::server_event: [ok, state, cwc].
Inner_server_event(st, cwc, event) ==
    LET done(post) == [ok |-> TRUE, state |-> post.state, cwc |-> post.cwc]
        submitted(r) ==
            IF ~r.ok THEN [ok |-> FALSE, state |-> st, cwc |-> cwc]
            ELSE done(server_event_post(r.st, cwc, event))
    IN  submitted(State_server_event(st, to_state_event(event),
                                     derive_switch(st, event)))

\* Inner::next_client_event: the fields it leaves and what it returns; ret
\* is Ok(None), Ok(Some(event)), an Err, or a panic.
Inner_next_client_event(st, cwc, buf, closed, reader) ==
    LET keep(ret) == [state |-> st, cwc |-> cwc, in_buf |-> buf,
                      body_reader |-> reader, ret |-> ret]
        request(h, r) ==
            IF ~r.ok
            THEN [keep(RetErr("InvalidTransition")) EXCEPT
                     !.state = r.state, !.in_buf = h.rest]
            ELSE [state |-> r.state, cwc |-> r.cwc, in_buf |-> h.rest,
                  body_reader |->
                      BodyReader_from(ReqHead_framing_method(h.head)),
                  ret |-> EvRequest(h.head)]
        idle(h) ==
            CASE h.kind = "None" -> keep(RetNone)
              [] h.kind = "Panic"
                   -> [keep([kind |-> "Panic"]) EXCEPT !.in_buf = h.rest]
              [] h.kind = "Err"
                   -> [keep(RetErr("MalformedHead")) EXCEPT
                          !.state = client_error(st), !.in_buf = h.rest]
              [] OTHER
                   -> request(h, Inner_client_event(st, cwc,
                                                    EvRequest(h.head)))
        body(x) == [keep(x.ret) EXCEPT !.in_buf = x.buf,
                                       !.body_reader = x.reader]
    IN  CASE st.client = "Idle" -> idle(ReqHead_from_buf(buf))
          [] st.client = "SendBody" ->
               IF reader.kind = "NoReader" THEN keep([kind |-> "Panic"])
               ELSE IF buf # <<>>
               THEN body(BodyReader_next_event(reader, buf))
               ELSE IF closed THEN keep(BodyReader_eof(reader))
               ELSE keep(RetNone)
          [] st.client = "Error" -> keep(RetErr("ClientInErrorState"))
          [] OTHER -> keep(RetNone)

-----------------------------------------------------------------------------
(* History of the driver. *)

NoEvent == [kind |-> "None"]

\* op: the operation of HttpConn called last; ok: whether it returned Ok;
\* ret: what it returned; ev: the event it submitted to Inner::client_event
\* or Inner::server_event; pre: the State and client_wants_continue it was
\* called with.
Call(op, ok, ret, ev, pre_state, pre_cwc) ==
    [op |-> op, ok |-> ok, ret |-> ret, ev |-> ev,
     pre |-> [state |-> pre_state, cwc |-> pre_cwc]]

CallNew == Call("new", TRUE, RetNone, NoEvent, State_new, FALSE)

\* eom_returned: next_event has returned EndOfMessage; resp_ended: the
\* server's send_end_of_message has been accepted; close_seen: a Request or
\* final Response whose head fails can_keep_alive has been accepted; req:
\* the head of the Request accepted last; body_sent: the bytes of the Data a
\* client-role caller sent after it (counted up to MaxSent); since: a
\* client Data or EndOfMessage, or a server InfoResponse or Response, was
\* sent or returned by next_event after it.
HistNew == [eom_returned |-> FALSE, resp_ended |-> FALSE,
            close_seen |-> FALSE, req |-> NoReqHead, body_sent |-> 0,
            since |-> FALSE]

\* The largest number of body bytes the history counts.
MaxSent == 6

\* The history after an event of the connection was accepted (ok), or was
\* returned by next_event.
HistEvent(h, event, ok) ==
    CASE ~ok -> h
      [] event.kind = "Request"
           -> [h EXCEPT !.req = event.head, !.body_sent = 0,
                        !.since = FALSE]
      [] event.kind = "Data"
           -> [h EXCEPT !.body_sent = Min(MaxSent, @ + Len(event.data)),
                        !.since = TRUE]
      [] event.kind \in {"EndOfMessage", "InfoResponse", "Response"}
           -> [h EXCEPT !.since = TRUE]
      [] OTHER -> h

RetBytes(bytes) == [kind |-> "Bytes", bytes |-> bytes]
RetRead(n) == [kind |-> "Read", n |-> n]

-----------------------------------------------------------------------------
(* History of the most recent State operation. *)

\* No call of Client::send / Server::send was made by the operation.
NoSend == [called |-> FALSE, self |-> "Idle", event |-> "Request",
           switch |-> "None", res |-> Err]

Sent(self, event, switch, res) ==
    [called |-> TRUE, self |-> self, event |-> event, switch |-> switch,
     res |-> res]

\* op: the operation; ev, sw: its arguments; ok: whether it returned Ok;
\* pre: the State it was called on; mid: the State handed to
\* state_transitions (pre when there was none); csend, ssend: the calls of
\* Client::send and Server::send it made.
Last(op, ev, sw, ok, pre, mid, csend, ssend) ==
    [op |-> op, ev |-> ev, sw |-> sw, ok |-> ok, pre |-> pre, mid |-> mid,
     csend |-> csend, ssend |-> ssend]

LastNew ==
    Last("new", "None", "None", TRUE, State_new, State_new, NoSend, NoSend)

\* The calls of the send functions State::client_event makes on `self`.
client_event_csend(self, event) ==
    Sent(self.client, event, "None", Client_send(self.client, event))

client_event_ssend(self, event) ==
    IF event = "Request" /\ Client_send(self.client, event) # Err
    THEN Sent(self.server, "Request", "None",
              Server_send(self.server, "Request", "None"))
    ELSE NoSend

server_event_ssend(self, event, switch) ==
    IF switch_proposed(self, switch)
    THEN Sent(self.server, event, switch,
              Server_send(self.server, event, switch))
    ELSE NoSend

-----------------------------------------------------------------------------
(* Spec: the public operations of State, called in any order. *)

\* A connection that is not driven: the driver's fields keep the values
\* Inner::from_bufs gives them.
ConnIdle ==
    /\ role = "None"
    /\ in_buf = <<>>
    /\ in_buf_closed = FALSE
    /\ client_wants_continue = FALSE
    /\ body_reader = NoReader
    /\ wire = <<>>
    /\ call = CallNew
    /\ hist = HistNew

Init ==
    /\ state = State_new
    /\ last = LastNew
    /\ ConnIdle

ClientEvent ==
    \E event \in StateEvent :
        LET r == State_client_event(state, event)
        IN  /\ state' = r.st
            /\ last' = Last("client_event", event, "None", r.ok, state,
                            client_event_sent(state, event).st,
                            client_event_csend(state, event),
                            client_event_ssend(state, event))
            /\ UNCHANGED connVars

ServerEvent ==
    \E event \in StateEvent, switch \in SwitchEvent :
        LET r == State_server_event(state, event, switch)
        IN  /\ state' = r.st
            /\ last' = Last("server_event", event, switch, r.ok, state,
                            server_event_sent(state, event, switch).st,
                            NoSend,
                            server_event_ssend(state, event, switch))
            /\ UNCHANGED connVars

ClientError ==
    /\ state' = client_error(state)
    /\ last' = Last("client_error", "None", "None", TRUE, state,
                    [state EXCEPT !.client = "Error"], NoSend, NoSend)
    /\ UNCHANGED connVars

ServerError ==
    /\ state' = server_error(state)
    /\ last' = Last("server_error", "None", "None", TRUE, state,
                    [state EXCEPT !.server = "Error"], NoSend, NoSend)
    /\ UNCHANGED connVars

ConnectProposal ==
    /\ state' = connect_proposal(state)
    /\ last' = Last("connect_proposal", "None", "None", TRUE, state,
                    [state EXCEPT !.pending_connect = TRUE], NoSend, NoSend)
    /\ UNCHANGED connVars

UpgradeProposal ==
    /\ state' = upgrade_proposal(state)
    /\ last' = Last("upgrade_proposal", "None", "None", TRUE, state,
                    [state EXCEPT !.pending_upgrade = TRUE], NoSend, NoSend)
    /\ UNCHANGED connVars

DisableKeepAlive ==
    /\ state' = disable_keep_alive(state)
    /\ last' = Last("disable_keep_alive", "None", "None", TRUE, state,
                    [state EXCEPT !.keep_alive = FALSE], NoSend, NoSend)
    /\ UNCHANGED connVars

StartNextCycle ==
    LET r == start_next_cycle(state)
    IN  /\ state' = r.st
        /\ last' = Last("start_next_cycle", "None", "None", r.ok, state,
                        r.st, NoSend, NoSend)
        /\ UNCHANGED connVars

Next ==
    \/ ClientEvent
    \/ ServerEvent
    \/ ClientError
    \/ ServerError
    \/ ConnectProposal
    \/ UpgradeProposal
    \/ DisableKeepAlive
    \/ StartNextCycle

Spec == Init /\ [][Next]_vars

TypeOK ==
    /\ state.client \in Client
    /\ state.server \in Server
    /\ state.keep_alive \in BOOLEAN
    /\ state.pending_connect \in BOOLEAN
    /\ state.pending_upgrade \in BOOLEAN

-----------------------------------------------------------------------------
(* Properties of the state machine, checked under Spec. *)

\* The client table as the specification states it.
ClientTable(c, e) ==
    CASE c = "Idle" /\ e = "Request" -> "SendBody"
      [] c = "SendBody" /\ e = "Data" -> "SendBody"
      [] c = "SendBody" /\ e = "EndOfMessage" -> "Done"
      [] c = "Idle" /\ e = "ConnectionClosed" -> "Closed"
      [] c = "Done" /\ e = "ConnectionClosed" -> "Closed"
      [] c = "MustClose" /\ e = "ConnectionClosed" -> "Closed"
      [] c = "Closed" /\ e = "ConnectionClosed" -> "Closed"
      [] OTHER -> Err

\* C1: a client event is accepted exactly for the pairs Idle+Request (and
\* then only if the server is Idle, which it moves to SendResponse),
\* SendBody+Data, SendBody+EndOfMessage and {Idle, Done, MustClose,
\* Closed}+ConnectionClosed, the client moving to SendBody, SendBody, Done and
\* Closed; every other pair is rejected and leaves the State as it was.
C1_ClientTransitions ==
    last.op = "client_event" =>
        LET to == ClientTable(last.pre.client, last.ev)
            accepted == /\ to # Err
                        /\ last.ev = "Request" => last.pre.server = "Idle"
        IN  /\ last.csend.res = to
            /\ last.ok <=> accepted
            /\ last.ok => /\ last.mid.client = to
                          /\ last.mid.server =
                                 IF last.ev = "Request" THEN "SendResponse"
                                 ELSE last.pre.server
            /\ ~last.ok => state = last.pre

\* A second Request while the request body is being sent has been rejected.
C1_Witness ==
    /\ last.op = "client_event"
    /\ last.pre.client = "SendBody"
    /\ last.ev = "Request"
    /\ ~last.ok

\* The server table as the specification states it.
ServerTable(s, e, sw) ==
    CASE sw = "None" /\ s = "Idle" /\ e = "Request" -> "SendResponse"
      [] sw = "None" /\ s = "SendResponse" /\ e = "InfoResponse"
           -> "SendResponse"
      [] sw = "None" /\ s \in {"Idle", "SendResponse"} /\ e = "Response"
           -> "SendBody"
      [] sw = "None" /\ s = "SendBody" /\ e = "Data" -> "SendBody"
      [] sw = "None" /\ s = "SendBody" /\ e = "EndOfMessage" -> "Done"
      [] sw = "None" /\ s \in {"Idle", "Done", "MustClose", "Closed"}
           /\ e = "ConnectionClosed" -> "Closed"
      [] sw = "Upgrade" /\ s = "SendResponse" /\ e = "InfoResponse"
           -> "SwitchedProtocol"
      [] sw = "Connect" /\ s = "SendResponse" /\ e = "Response"
           -> "SwitchedProtocol"
      [] OTHER -> Err

\* C2: Server::send accepts exactly the triples of the server table (six
\* rows with no switch, two with a switch) with the target states listed,
\* and every other (state, event, switch) triple fails.
C2_ServerTransitions ==
    last.ssend.called =>
        LET to == ServerTable(last.ssend.self, last.ssend.event,
                              last.ssend.switch)
        IN  /\ last.ssend.res = to
            /\ last.op = "server_event" =>
                   /\ last.ok <=> to # Err
                   /\ last.ok => last.mid.server = to
                   /\ ~last.ok => state = last.pre

\* A final Response carrying Connect has been rejected in SendBody although
\* the proposal was pending.
C2_Witness ==
    /\ last.op = "server_event"
    /\ last.ssend.called
    /\ last.ssend.self = "SendBody"
    /\ last.ssend.event = "Response"
    /\ last.ssend.switch = "Connect"
    /\ last.ssend.res = Err

\* C3: a server event with switch Connect fails unless pending_connect is
\* set and one with switch Upgrade fails unless pending_upgrade is set,
\* whatever the other flag; the State is left as it was.
C3_SwitchNeedsProposal ==
    last.op = "server_event" =>
        /\ (last.sw = "Connect" /\ ~last.pre.pending_connect) =>
               ~last.ok /\ state = last.pre
        /\ (last.sw = "Upgrade" /\ ~last.pre.pending_upgrade) =>
               ~last.ok /\ state = last.pre

\* Upgrade was proposed, the server answered with Connect from SendResponse,
\* and was refused.
C3_Witness ==
    /\ last.op = "server_event"
    /\ last.sw = "Connect"
    /\ last.ev = "Response"
    /\ last.pre.server = "SendResponse"
    /\ last.pre.pending_upgrade
    /\ ~last.pre.pending_connect
    /\ ~last.ok

\* C4: an accepted server switch (Response with Connect or InfoResponse
\* with Upgrade, from SendResponse, one or both proposals pending) leaves
\* the server in SwitchedProtocol; the client is SwitchedProtocol at once if
\* it was MightSwitchProtocol, and otherwise as soon as its EndOfMessage is
\* accepted; once both sides are SwitchedProtocol every client and server
\* event is rejected.
C4_SwitchAccepted ==
    /\ (last.op = "server_event" /\ last.ok /\ last.sw # "None") =>
           /\ last.pre.server = "SendResponse"
           /\ last.sw = "Connect" =>
                  last.ev = "Response" /\ last.pre.pending_connect
           /\ last.sw = "Upgrade" =>
                  last.ev = "InfoResponse" /\ last.pre.pending_upgrade
           /\ state.server = "SwitchedProtocol"
           /\ last.pre.client = "MightSwitchProtocol" =>
                  state.client = "SwitchedProtocol"
    /\ (/\ last.op = "client_event" /\ last.ok
        /\ last.ev = "EndOfMessage"
        /\ state.server = "SwitchedProtocol") =>
           state.client = "SwitchedProtocol"
    /\ (/\ last.op \in {"client_event", "server_event"}
        /\ last.pre.client = "SwitchedProtocol"
        /\ last.pre.server = "SwitchedProtocol") =>
           ~last.ok /\ state = last.pre

\* With both proposals pending the server accepted the switch while the
\* client was in SendBody, and the client's EndOfMessage then switched it.
C4_Witness ==
    /\ last.op = "client_event"
    /\ last.ev = "EndOfMessage"
    /\ last.ok
    /\ last.pre.pending_connect /\ last.pre.pending_upgrade
    /\ last.pre.server = "SwitchedProtocol"
    /\ states(state) = <<"SwitchedProtocol", "SwitchedProtocol">>

\* C5: an accepted final Response with no switch leaves pending_connect and
\* pending_upgrade both false, before or after the client's EndOfMessage;
\* an InfoResponse with no switch, Data, EndOfMessage and ConnectionClosed,
\* from either side, leave both flags as they were.
C5_FlagLifecycle ==
    /\ (/\ last.op = "server_event" /\ last.ok
        /\ last.ev = "Response" /\ last.sw = "None") =>
           ~state.pending_connect /\ ~state.pending_upgrade
    /\ (/\ last.op \in {"client_event", "server_event"}
        /\ \/ last.ev = "InfoResponse" /\ last.sw = "None"
           \/ last.ev \in {"Data", "EndOfMessage", "ConnectionClosed"}) =>
           /\ state.pending_connect = last.pre.pending_connect
           /\ state.pending_upgrade = last.pre.pending_upgrade

\* Both proposals were pending and the client had finished its request when
\* the final Response cleared them.
C5_Witness ==
    /\ last.op = "server_event" /\ last.ok
    /\ last.ev = "Response" /\ last.sw = "None"
    /\ last.pre.pending_connect /\ last.pre.pending_upgrade
    /\ last.pre.client = "MightSwitchProtocol"
    /\ ~state.pending_connect /\ ~state.pending_upgrade

\* C6: with the client in MightSwitchProtocol, an accepted final Response
\* with no switch moves the server to SendBody and the client to Done when
\* keep_alive is true and to MustClose when it is false; an accepted
\* InfoResponse with no switch leaves the client in MightSwitchProtocol.
C6_SwitchDeniedLate ==
    (/\ last.op = "server_event" /\ last.ok /\ last.sw = "None"
     /\ last.pre.client = "MightSwitchProtocol") =>
        /\ last.ev = "Response" =>
               /\ state.server = "SendBody"
               /\ state.client =
                      IF state.keep_alive THEN "Done" ELSE "MustClose"
        /\ last.ev = "InfoResponse" =>
               /\ state.client = "MightSwitchProtocol"
               /\ state.server = "SendResponse"

\* The switch was denied late on a connection whose keep-alive is disabled.
C6_Witness ==
    /\ last.op = "server_event" /\ last.ok /\ last.sw = "None"
    /\ last.ev = "Response"
    /\ last.pre.client = "MightSwitchProtocol"
    /\ ~state.keep_alive
    /\ states(state) = <<"MustClose", "SendBody">>

\* C7: in every State an operation returns, keep_alive = false implies that
\* neither side is Done; where the same operation would have left a side in
\* Done with keep_alive true, that side is in MustClose.
C7_NoDoneWithoutKeepAlive ==
    ~state.keep_alive =>
        /\ state.client # "Done"
        /\ state.server # "Done"
        /\ LET alive == state_transitions([last.mid EXCEPT
                                               !.keep_alive = TRUE])
           IN  /\ alive.client = "Done" => state.client = "MustClose"
               /\ alive.server = "Done" => state.server = "MustClose"

\* Keep-alive was disabled while the client was already Done.
C7_Witness ==
    /\ last.op = "disable_keep_alive"
    /\ last.pre.client = "Done"
    /\ ~state.keep_alive
    /\ state.client = "MustClose"

\* C9: start_next_cycle succeeds if and only if client = Done and
\* server = Done; on success both sides are Idle and every other field,
\* keep_alive included, is as before; otherwise it fails and the State is as
\* before.
C9_StartNextCycle ==
    last.op = "start_next_cycle" =>
        /\ last.ok <=> (last.pre.client = "Done" /\ last.pre.server = "Done")
        /\ last.ok => state = [last.pre EXCEPT !.client = "Idle",
                                               !.server = "Idle"]
        /\ ~last.ok => state = last.pre

\* A finished cycle has been restarted.
C9_Witness ==
    /\ last.op = "start_next_cycle"
    /\ last.ok
    /\ last.pre.client = "Done" /\ last.pre.server = "Done"
    /\ states(state) = <<"Idle", "Idle">>

\* start_next_cycle has been refused on a connection that finished its cycle
\* with keep-alive disabled.
C9_WitnessMustClose ==
    /\ last.op = "start_next_cycle"
    /\ ~last.ok
    /\ states(last.pre) = <<"MustClose", "MustClose">>

-----------------------------------------------------------------------------
(* SpecConn: the public operations of HttpConn<Client> and                 *)
(* HttpConn<Server>, called in any order.  The peer of a server-role       *)
(* connection writes one of Streams; read_from moves its bytes into the    *)
(* ingest buffer.                                                          *)

\* The largest number of bytes one read returns, unless it returns all.
MaxRead == 24

\* What a client writes first: a GET, a GET with Connection: close, an
\* HTTP/1.0 GET, a POST with a content-length of 2, a chunked POST, a
\* CONNECT, a GET with upgrade and expect: 100-continue, a HEAD with a
\* folded header line, an empty chunked POST with connection: close, a
\* chunked POST whose chunk size is not hexadecimal, and the two POSTs cut
\* off in the middle of the body.
FirstRequests ==
    {<<"G", "E", "T", " ", "/", " ", "H", "T", "T", "P", "/", "1", ".",
       "1", "\r", "\n", "\r", "\n">>,
     <<"G", "E", "T", " ", "/", " ", "H", "T", "T", "P", "/", "1", ".",
       "1", "\r", "\n", "C", "o", "n", "n", "e", "c", "t", "i", "o",
       "n", ":", " ", "c", "l", "o", "s", "e", "\r", "\n", "\r", "\n">>,
     <<"G", "E", "T", " ", "/", " ", "H", "T", "T", "P", "/", "1", ".",
       "0", "\r", "\n", "\r", "\n">>,
     <<"P", "O", "S", "T", " ", "/", " ", "H", "T", "T", "P", "/", "1",
       ".", "1", "\r", "\n", "c", "o", "n", "t", "e", "n", "t", "-",
       "l", "e", "n", "g", "t", "h", ":", " ", "2", "\r", "\n", "\r",
       "\n", "h", "i">>,
     <<"P", "O", "S", "T", " ", "/", " ", "H", "T", "T", "P", "/", "1",
       ".", "1", "\r", "\n", "t", "r", "a", "n", "s", "f", "e", "r",
       "-", "e", "n", "c", "o", "d", "i", "n", "g", ":", " ", "c", "h",
       "u", "n", "k", "e", "d", "\r", "\n", "\r", "\n", "2", "\r",
       "\n", "h", "i", "\r", "\n", "0", "\r", "\n", "\r", "\n">>,
     <<"C", "O", "N", "N", "E", "C", "T", " ", "h", ":", "1", " ", "H",
       "T", "T", "P", "/", "1", ".", "1", "\r", "\n", "\r", "\n">>,
     <<"G", "E", "T", " ", "/", " ", "H", "T", "T", "P", "/", "1", ".",
       "1", "\r", "\n", "u", "p", "g", "r", "a", "d", "e", ":", " ",
       "x", "\r", "\n", "e", "x", "p", "e", "c", "t", ":", " ", "1",
       "0", "0", "-", "c", "o", "n", "t", "i", "n", "u", "e", "\r",
       "\n", "\r", "\n">>,
     <<"H", "E", "A", "D", " ", "/", "f", "o", "o", " ", "H", "T", "T",
       "P", "/", "1", ".", "1", "\r", "\n", " ", " ", "f", "o", "l",
       "d", "e", "d", ":", " ", "h", "e", "a", "d", "e", "r", "\r",
       "\n", "\r", "\n">>,
     <<"P", "O", "S", "T", " ", "/", " ", "H", "T", "T", "P", "/", "1",
       ".", "1", "\r", "\n", "t", "r", "a", "n", "s", "f", "e", "r",
       "-", "e", "n", "c", "o", "d", "i", "n", "g", ":", " ", "c", "h",
       "u", "n", "k", "e", "d", "\r", "\n", "c", "o", "n", "n", "e",
       "c", "t", "i", "o", "n", ":", " ", "c", "l", "o", "s", "e",
       "\r", "\n", "\r", "\n", "0", "\r", "\n", "\r", "\n">>,
     <<"P", "O", "S", "T", " ", "/", " ", "H", "T", "T", "P", "/", "1",
       ".", "1", "\r", "\n", "t", "r", "a", "n", "s", "f", "e", "r",
       "-", "e", "n", "c", "o", "d", "i", "n", "g", ":", " ", "c", "h",
       "u", "n", "k", "e", "d", "\r", "\n", "\r", "\n", "z", "z", "\r",
       "\n">>,
     <<"P", "O", "S", "T", " ", "/", " ", "H", "T", "T", "P", "/", "1",
       ".", "1", "\r", "\n", "c", "o", "n", "t", "e", "n", "t", "-",
       "l", "e", "n", "g", "t", "h", ":", " ", "2", "\r", "\n", "\r",
       "\n", "h">>,
     <<"P", "O", "S", "T", " ", "/", " ", "H", "T", "T", "P", "/", "1",
       ".", "1", "\r", "\n", "t", "r", "a", "n", "s", "f", "e", "r",
       "-", "e", "n", "c", "o", "d", "i", "n", "g", ":", " ", "c", "h",
       "u", "n", "k", "e", "d", "\r", "\n", "\r", "\n", "2", "\r",
       "\n", "h">>}

\* What it may pipeline behind it: nothing, a GET, or the POST.
NextRequests ==
    {<<>>,
     <<"G", "E", "T", " ", "/", " ", "H", "T", "T", "P", "/", "1", ".",
       "1", "\r", "\n", "\r", "\n">>,
     <<"P", "O", "S", "T", " ", "/", " ", "H", "T", "T", "P", "/", "1",
       ".", "1", "\r", "\n", "c", "o", "n", "t", "e", "n", "t", "-",
       "l", "e", "n", "g", "t", "h", ":", " ", "2", "\r", "\n", "\r",
       "\n", "h", "i">>}

Streams == {a \o b : a \in FirstRequests, b \in NextRequests}

Header(name, value) == [name |-> name, value |-> value]

\* The heads a client-role caller sends.
ReqHeads ==
    {ReqHead(<<"G", "E", "T">>, <<"/">>, "HTTP_11", <<>>),
     ReqHead(<<"G", "E", "T">>, <<"/">>, "HTTP_11", <<Header(H_CONNECTION, T_CLOSE)>>),
     ReqHead(<<"G", "E", "T">>, <<"/">>, "HTTP_10", <<>>),
     ReqHead(<<"P", "O", "S", "T">>, <<"/">>, "HTTP_11",
             <<Header(H_CONTENT_LENGTH, <<"2">>),
               Header(H_EXPECT, T_100_CONTINUE)>>),
     ReqHead(<<"P", "O", "S", "T">>, <<"/">>, "HTTP_11",
             <<Header(H_TRANSFER_ENCODING, T_CHUNKED)>>),
     ReqHead(M_CONNECT, <<"h", ":", "1">>, "HTTP_11", <<>>),
     ReqHead(<<"G", "E", "T">>, <<"/">>, "HTTP_11", <<Header(H_UPGRADE, <<"x">>)>>)}

\* The heads a server-role caller sends.
RespHeads ==
    {RespHead(100, "HTTP_11", <<>>),
     RespHead(101, "HTTP_11", <<Header(H_UPGRADE, <<"x">>)>>),
     RespHead(200, "HTTP_11", <<>>),
     RespHead(200, "HTTP_11", <<Header(H_CONNECTION, T_CLOSE)>>),
     RespHead(404, "HTTP_11", <<Header(H_CONTENT_LENGTH, <<"2">>)>>)}

DataChunks == {<<"h", "i">>}

TrailerChoices == {None, Some(<<Header(<<"x">>, <<"2">>)>>)}

Panicked == call.ret.kind = "Panic"

ConnInit ==
    /\ state = State_new
    /\ last = LastNew
    /\ role \in {"Client", "Server"}
    /\ in_buf = <<>>
    /\ in_buf_closed = FALSE
    /\ client_wants_continue = FALSE
    /\ body_reader = NoReader
    /\ wire \in IF role = "Server" THEN Streams ELSE {<<>>}
    /\ call = CallNew
    /\ hist = HistNew

\* The error of a rejected server event.
server_event_err(st, event) ==
    IF switch_proposed(st, derive_switch(st, event))
    THEN RetErr("InvalidTransition") ELSE RetErr("InvalidSwitch")

\* The head of the event fails can_keep_alive.
closes(event) ==
    CASE event.kind = "Request" -> ~ReqHead_can_keep_alive(event.head)
      [] event.kind = "Response" -> ~RespHead_can_keep_alive(event.head)
      [] OTHER -> FALSE

\* A send of HttpConn<Client>: Inner::client_event, then Inner::write_event.
ClientSend(op, event) ==
    \E r \in {Inner_client_event(state, client_wants_continue, event)},
       w \in {Event_into_buf(event)} :
        /\ role = "Client"
        /\ ~Panicked
        /\ state' = r.state
        /\ client_wants_continue' = r.cwc
        /\ call' = Call(op, r.ok /\ ~w.panic,
                        IF ~r.ok THEN RetErr("InvalidTransition")
                        ELSE IF w.panic THEN [kind |-> "Panic"]
                        ELSE RetBytes(w.bytes),
                        event, state, client_wants_continue)
        /\ hist' = [HistEvent(hist, event, r.ok) EXCEPT
                       !.close_seen = @ \/ (r.ok /\ closes(event))]
        /\ UNCHANGED <<last, role, in_buf, in_buf_closed, body_reader,
                       wire>>

\* A send of HttpConn<Server>: Inner::server_event, then Inner::write_event.
ServerSend(op, event) ==
    \E r \in {Inner_server_event(state, client_wants_continue, event)},
       w \in {Event_into_buf(event)} :
        /\ role = "Server"
        /\ ~Panicked
        /\ state' = r.state
        /\ client_wants_continue' = r.cwc
        /\ call' = Call(op, r.ok /\ ~w.panic,
                        IF ~r.ok THEN server_event_err(state, event)
                        ELSE IF w.panic THEN [kind |-> "Panic"]
                        ELSE RetBytes(w.bytes),
                        event, state, client_wants_continue)
        /\ hist' = [HistEvent(hist,
                              IF event.kind \in {"InfoResponse", "Response"}
                              THEN event ELSE NoEvent, r.ok) EXCEPT
                       !.close_seen = @ \/ (r.ok /\ closes(event)),
                       !.resp_ended =
                           @ \/ (r.ok /\ event.kind = "EndOfMessage")]
        /\ UNCHANGED <<last, role, in_buf, in_buf_closed, body_reader,
                       wire>>

SendReq == \E req \in ReqHeads : ClientSend("send_req", EvRequest(req))

ClientSendData ==
    \E data \in DataChunks : ClientSend("send_data", EvData(data))

ClientSendEndOfMessage ==
    \E t \in TrailerChoices :
        ClientSend("send_end_of_message", EvEndOfMessage(t))

ClientSendConnectionClosed ==
    ClientSend("send_connection_closed", EvConnectionClosed)

SendInfoResp ==
    \E resp \in RespHeads :
        ServerSend("send_info_resp", EvInfoResponse(resp))

SendResp ==
    \E resp \in RespHeads : ServerSend("send_resp", EvResponse(resp))

ServerSendData ==
    \E data \in DataChunks : ServerSend("send_data", EvData(data))

ServerSendEndOfMessage ==
    \E t \in TrailerChoices :
        ServerSend("send_end_of_message", EvEndOfMessage(t))

ServerSendConnectionClosed ==
    ServerSend("send_connection_closed", EvConnectionClosed)

\* HttpConn<Server>::next_event
NextEvent ==
    \E r \in {Inner_next_client_event(state, client_wants_continue, in_buf,
                                      in_buf_closed, body_reader)} :
        /\ role = "Server"
        /\ ~Panicked
        /\ state' = r.state
        /\ client_wants_continue' = r.cwc
        /\ in_buf' = r.in_buf
        /\ body_reader' = r.body_reader
        /\ call' = Call("next_event", r.ret.kind \notin {"Err", "Panic"},
                        r.ret,
                        IF r.ret.kind = "Request" THEN r.ret ELSE NoEvent,
                        state, client_wants_continue)
        /\ hist' = [HistEvent(hist, r.ret, TRUE) EXCEPT
                       !.close_seen =
                           @ \/ (r.ret.kind = "Request" /\ closes(r.ret)),
                       !.eom_returned =
                           @ \/ r.ret.kind = "EndOfMessage"]
        /\ UNCHANGED <<last, role, in_buf_closed, wire>>

\* A plausible slip: the bytes read after the end of the stream are kept.
Inner_read_from_mut(buf, closed, data) ==
    IF data = <<>>
    THEN [in_buf |-> buf, in_buf_closed |-> TRUE, ret |-> RetRead(0)]
    ELSE [in_buf |-> buf \o data, in_buf_closed |-> closed,
          ret |-> IF closed THEN RetErr("PeerDataAfterClose")
                  ELSE RetRead(Len(data))]

\* Inner::read_from, the reader having put `data` behind the ingest buffer:
\* the fields it leaves and what it returns.  advance_mut makes the bytes
\* part of the buffer; without it they are not.
Inner_read_from(buf, closed, data) ==
    IF data = <<>>
    THEN [in_buf |-> buf, in_buf_closed |-> TRUE, ret |-> RetRead(0)]
    ELSE IF closed
    THEN [in_buf |-> buf, in_buf_closed |-> closed,
          ret |-> RetErr("PeerDataAfterClose")]
    ELSE [in_buf |-> buf \o data, in_buf_closed |-> closed,
          ret |-> RetRead(Len(data))]

\* HttpConn::read_from: the reader returns n bytes of the peer's stream, or
\* 0; data after a read of 0 is the error.
ReadFrom ==
    \E n \in {0, Min(MaxRead, Len(wire)), Len(wire)} :
        \E r \in {Inner_read_from(in_buf, in_buf_closed,
                                   split_to(wire, n))} :
            /\ ~Panicked
            /\ in_buf' = r.in_buf
            /\ in_buf_closed' = r.in_buf_closed
            /\ wire' = advance(wire, n)
            /\ call' = Call("read_from", r.ret.kind # "Err", r.ret, NoEvent,
                            state, client_wants_continue)
            /\ UNCHANGED <<state, last, role, client_wants_continue,
                           body_reader, hist>>

ConnNext ==
    \/ SendReq
    \/ ClientSendData
    \/ ClientSendEndOfMessage
    \/ ClientSendConnectionClosed
    \/ NextEvent
    \/ SendInfoResp
    \/ SendResp
    \/ ServerSendData
    \/ ServerSendEndOfMessage
    \/ ServerSendConnectionClosed
    \/ ReadFrom

SpecConn == ConnInit /\ [][ConnNext]_vars

-----------------------------------------------------------------------------
(* Properties of SpecConn. *)

\* The operation called last submitted an event that Inner::client_event or
\* Inner::server_event accepted.
Accepted == call.ev # NoEvent /\ call.ret.kind # "Err"

\* The call made last completed a request/response cycle of a server-role
\* connection: the end of the request has been returned by next_event and
\* the end of the response has been sent.
CycleCompleted ==
    /\ role = "Server"
    /\ \/ /\ call.op = "send_end_of_message"
          /\ call.ok
          /\ hist.eom_returned
       \/ /\ call.op = "next_event"
          /\ call.ret.kind = "EndOfMessage"
          /\ hist.resp_ended

\* C8, the part about the head: once a Request or a final Response whose
\* head fails can_keep_alive has been accepted, keep_alive is false, and
\* right after such a Request the state is (SendBody, SendResponse,
\* keep_alive = false).
C8_HeadDisablesKeepAlive ==
    /\ hist.close_seen => ~state.keep_alive
    /\ (Accepted /\ call.ev.kind = "Request" /\ closes(call.ev)) =>
           /\ states(state) = <<"SendBody", "SendResponse">>
           /\ ~state.keep_alive

\* C8: a Request or a final Response whose head fails can_keep_alive sets
\* keep_alive = false once it is accepted; right after a Request with
\* Connection: close the state is (SendBody, SendResponse, keep_alive =
\* false); and once the request/response cycle of such a connection
\* completes, both sides are MustClose.
C8_KeepAliveDisabling ==
    /\ C8_HeadDisablesKeepAlive
    /\ (CycleCompleted /\ hist.close_seen) =>
           states(state) = <<"MustClose", "MustClose">>

\* C10: on a keep-alive server-role connection whose ingest buffer holds a
\* second complete request, once the first request's events have been
\* delivered and the response has been completed, both sides are Done (so
\* that a next cycle can start and return the second Request).
C10_Pipelining ==
    (/\ CycleCompleted
     /\ state.keep_alive
     /\ ~any_pending(state)
     /\ ReqHead_from_buf(in_buf).kind = "Some") =>
        states(state) = <<"Done", "Done">>

\* C11: every event next_event returns has first been submitted to the state
\* machine as a client event: after a Request the client has left Idle,
\* after EndOfMessage the client is Done, MustClose, MightSwitchProtocol or
\* SwitchedProtocol, and after Data or EndOfMessage client_wants_continue is
\* false.
C11_EventsSubmitted ==
    (role = "Server" /\ call.op = "next_event") =>
        /\ call.ret.kind = "Request" => state.client = "SendBody"
        /\ call.ret.kind = "EndOfMessage" =>
               state.client \in {"Done", "MustClose", "MightSwitchProtocol",
                                 "SwitchedProtocol"}
        /\ call.ret.kind \in {"Data", "EndOfMessage"} =>
               ~client_wants_continue

\* C12, the part about the states: on a server-role connection the body
\* reader is present exactly when the client side is in SendBody.
C12_ReaderWhileSendBody ==
    role = "Server" =>
        (body_reader # NoReader <=> state.client = "SendBody")

\* C12: the inbound body reader is present if and only if the inbound side
\* is in SendBody; it is installed when the Request moves the client to
\* SendBody and removed when EndOfMessage is produced.
C12_ReaderIffSendBody ==
    /\ C12_ReaderWhileSendBody
    /\ (role = "Server" /\ call.op = "next_event") =>
           /\ call.ret.kind = "Request" => body_reader # NoReader
           /\ call.ret.kind = "EndOfMessage" => body_reader = NoReader

\* C13: a next_event called while the client side or the server side is in
\* SwitchedProtocol returns no event, whatever the ingest buffer holds.
C13_NoEventAfterSwitch ==
    (/\ role = "Server"
     /\ call.op = "next_event"
     /\ \/ call.pre.state.client = "SwitchedProtocol"
        \/ call.pre.state.server = "SwitchedProtocol") =>
        call.ret = RetNone

\* The operations of HttpConn that send an event.
SendOps == {"send_req", "send_info_resp", "send_resp", "send_data",
            "send_end_of_message", "send_connection_closed"}

\* C14: a send operation that is rejected leaves the State and
\* client_wants_continue as they were.
C14_RejectedSendUnchanged ==
    (call.op \in SendOps /\ call.ret.kind = "Err") =>
        /\ state = call.pre.state
        /\ client_wants_continue = call.pre.cwc

\* C15: pending_connect and pending_upgrade go from false to true only in a
\* call that submits a Request which is accepted with the client Idle:
\* pending_connect for the CONNECT method, pending_upgrade for a head with an
\* Upgrade header.
C15_FlagsSetOnlyByRequest ==
    LET idle_request ==
            /\ Accepted
            /\ call.ev.kind = "Request"
            /\ call.pre.state.client = "Idle"
    IN  /\ (state.pending_connect /\ ~call.pre.state.pending_connect) =>
               idle_request /\ call.ev.head.method = M_CONNECT
        /\ (state.pending_upgrade /\ ~call.pre.state.pending_upgrade) =>
               idle_request /\ contains_key(call.ev.head.headers, H_UPGRADE)

\* next_event has just failed to parse a request head.
HeadParseFailed ==
    /\ role = "Server"
    /\ call.op = "next_event"
    /\ call.pre.state.client = "Idle"
    /\ call.ret = RetErr("MalformedHead")

\* C16, the part about the client: a request head that fails to parse is
\* returned as an error and moves the client side to Error, and a next_event
\* called with the client in Error fails.
C16_ClientError ==
    /\ HeadParseFailed => state.client = "Error"
    /\ (call.op = "next_event" /\ call.pre.state.client = "Error") =>
           call.ret.kind = "Err" /\ state.client = "Error"

\* C16: when parsing a request head fails in next_event, the error is
\* returned, the client side becomes Error, the server side is not left in
\* Idle or Done, and every later next_event fails.
C16_MalformedHead ==
    /\ C16_ClientError
    /\ state.client = "Error" => state.server \notin {"Idle", "Done"}

\* C17: when the body reader fails on the chunk framing during next_event,
\* the client side is moved to Error.
C17_ChunkErrorIsTerminal ==
    (/\ role = "Server"
     /\ call.op = "next_event"
     /\ call.pre.state.client = "SendBody"
     /\ call.ret \in {RetErr("InvalidChunkSize"), RetErr("HttpParse")}) =>
        state.client = "Error"

\* C18: a next_event called with the client in SendBody and the ingest
\* buffer empty returns no event while the end of the stream has not been
\* seen; once it has, it returns ConnectionClosedPrematurely for a
\* ContentLength reader with rem > 0 and for a Chunked reader that has not
\* produced its EndOfMessage, and EndOfMessage(None) for an Http10 reader.
\* Nothing else changes.
C18_EofDuringBody ==
    [][(/\ role = "Server"
        /\ state.client = "SendBody"
        /\ body_reader # NoReader
        /\ in_buf = <<>>
        /\ call'.op = "next_event") =>
           /\ ~in_buf_closed => call'.ret = RetNone
           /\ (/\ in_buf_closed
               /\ \/ body_reader.kind = "ContentLength" /\ body_reader.rem > 0
                  \/ body_reader.kind = "Chunked" /\ ~hist.eom_returned) =>
                  call'.ret = RetErr("ConnectionClosedPrematurely")
           /\ (in_buf_closed /\ body_reader.kind = "Http10") =>
                  call'.ret = RetEndOfMessage(None)
           /\ UNCHANGED <<state, in_buf, body_reader, client_wants_continue>>
      ]_vars

\* The peer closed in the middle of a ContentLength body and next_event
\* reported it.
C18_Witness ==
    /\ role = "Server"
    /\ call.op = "next_event"
    /\ call.ret = RetErr("ConnectionClosedPrematurely")
    /\ body_reader.kind = "ContentLength" /\ body_reader.rem > 0
    /\ in_buf = <<>> /\ in_buf_closed
    /\ state.client = "SendBody"

\* C19: a next_event called with the client in SendBody and a ContentLength
\* reader whose rem is 0 (the reader is as it was before the call unless the
\* call returned Data) returns EndOfMessage(None), whatever the ingest
\* buffer holds and whether or not the end of the stream has been seen.
C19_EndOfMessageAtZero ==
    (/\ role = "Server"
     /\ call.op = "next_event"
     /\ call.pre.state.client = "SendBody"
     /\ body_reader = ReaderContentLength(0)
     /\ call.ret.kind # "Data") =>
        call.ret = RetEndOfMessage(None)

-----------------------------------------------------------------------------
(* SpecReader: one BodyReader of src/body.rs over a buffer that is filled  *)
(* piece by piece, as the unit tests of body.rs drive it; next_event and   *)
(* eof are called in any order.                                            *)

\* The largest Content-Length of a reader.
MaxLen == 3

\* A reader made from any framing method, in front of the bytes that will
\* arrive: a plain body; a chunked one with a trailer; one of two chunks
\* without trailers; one whose chunk size carries an extension and whose
\* trailer name is in upper case; one whose first chunk is followed by two
\* bytes that are not CR LF (the last four for a Chunked reader).  The
\* history is the reader it started as and all the bytes of the stream, the
\* Data payloads returned so far (concatenated, their number, and one by
\* one), whether EndOfMessage has been returned and the EndOfMessage
\* returned last, whether every next_event so far was called with all of
\* the stream in the buffer, and the reader and the buffer before the most
\* recent next_event.
ReaderInit ==
    /\ state = State_new
    /\ last = LastNew
    /\ role = "Reader"
    /\ in_buf = <<>>
    /\ in_buf_closed = FALSE
    /\ client_wants_continue = FALSE
    /\ body_reader \in
           {BodyReader_from(m) :
                m \in {FramingContentLength(n) : n \in 0..MaxLen}
                          \cup {FramingChunked, FramingHttp10}}
    /\ wire \in
           {<<"a", "b", "c", "d", "e">>}
               \cup IF body_reader.kind # "Chunked" THEN {}
                    ELSE {<<"2", "\r", "\n", "h", "i", "\r", "\n", "0",
                            "\r", "\n", "x", ":", "2", "\r", "\n", "\r",
                            "\n">>,
                          <<"1", "\r", "\n", "a", "\r", "\n", "2", "\r",
                            "\n", "b", "c", "\r", "\n", "0", "\r", "\n",
                            "\r", "\n">>,
                          <<"1", ";", "e", "\r", "\n", "a", "\r", "\n",
                            "0", "\r", "\n", "X", ":", " ", "2", "\r",
                            "\n", "\r", "\n">>,
                          <<"1", "\r", "\n", "a", "X", "Y", "0", "\r",
                            "\n", "\r", "\n">>}
    /\ call = CallNew
    /\ hist = [reader |-> body_reader, stream |-> wire, data |-> <<>>,
               pieces |-> 0, chunks |-> <<>>, ended |-> FALSE,
               eom |-> RetNone, whole |-> TRUE,
               pre |-> [reader |-> body_reader, buf |-> <<>>]]

\* n more bytes arrive in the buffer.
ReaderFeed ==
    \E n \in 1..Len(wire) :
        /\ in_buf' = in_buf \o split_to(wire, n)
        /\ wire' = advance(wire, n)
        /\ call' = Call("feed", TRUE, RetRead(n), NoEvent, state, FALSE)
        /\ UNCHANGED <<state, last, role, in_buf_closed,
                       client_wants_continue, body_reader, hist>>

\* BodyReader::next_event
ReaderNextEvent ==
    \E x \in {BodyReader_next_event(body_reader, in_buf)} :
        /\ body_reader' = x.reader
        /\ in_buf' = x.buf
        /\ call' = Call("next_event", x.ret.kind # "Err", x.ret, NoEvent,
                        state, FALSE)
        /\ hist' = [hist EXCEPT
                       !.data = IF x.ret.kind = "Data"
                                THEN @ \o x.ret.data ELSE @,
                       !.pieces = IF x.ret.kind = "Data" THEN @ + 1 ELSE @,
                       !.chunks = IF x.ret.kind = "Data"
                                  THEN Append(@, x.ret.data) ELSE @,
                       !.ended = @ \/ x.ret.kind = "EndOfMessage",
                       !.eom = IF x.ret.kind = "EndOfMessage"
                               THEN x.ret ELSE @,
                       !.whole = @ /\ wire = <<>>,
                       !.pre = [reader |-> body_reader, buf |-> in_buf]]
        /\ UNCHANGED <<state, last, role, in_buf_closed,
                       client_wants_continue, wire>>

\* BodyReader::eof
ReaderEof ==
    /\ call' = Call("eof", BodyReader_eof(body_reader).kind # "Err",
                    BodyReader_eof(body_reader), NoEvent, state, FALSE)
    /\ UNCHANGED <<state, last, role, in_buf, in_buf_closed,
                   client_wants_continue, body_reader, wire, hist>>

ReaderNext ==
    \/ ReaderFeed
    \/ ReaderNextEvent
    \/ ReaderEof

SpecReader == ReaderInit /\ [][ReaderNext]_vars

-----------------------------------------------------------------------------
(* Properties of SpecReader. *)

\* C18, the Http10 arm on the reader itself: BodyReader::eof of an Http10
\* reader is EndOfMessage(None).
C18_Http10Eof ==
    (role = "Reader" /\ call.op = "eof" /\ body_reader.kind = "Http10") =>
        call.ret = RetEndOfMessage(None)

\* C20: a call of a ContentLength reader with rem > 0 hands out the first
\* min(rem, buffer length) bytes of the buffer as one Data event and takes
\* that number off rem, or returns none on an empty buffer; with rem = 0 it
\* returns EndOfMessage(None) and consumes nothing.  So the payloads
\* returned are a prefix of the stream never longer than n, and once
\* EndOfMessage is returned they are the first n bytes of the stream, in
\* whatever pieces the bytes arrived.
C20_ContentLengthReader ==
    (role = "Reader" /\ hist.reader.kind = "ContentLength") =>
        LET n == hist.reader.rem
            rem == hist.pre.reader.rem
            k == Min(rem, Len(hist.pre.buf))
        IN  /\ call.op = "next_event" =>
                  CASE rem = 0
                         -> /\ call.ret = RetEndOfMessage(None)
                            /\ in_buf = hist.pre.buf
                            /\ body_reader = hist.pre.reader
                    [] k = 0
                         -> /\ call.ret = RetNone
                            /\ in_buf = hist.pre.buf
                            /\ body_reader = hist.pre.reader
                    [] OTHER
                         -> /\ call.ret = RetData(SubSeq(hist.pre.buf, 1, k))
                            /\ in_buf = SubSeq(hist.pre.buf, k + 1,
                                               Len(hist.pre.buf))
                            /\ body_reader = ReaderContentLength(rem - k)
            /\ hist.data \o in_buf \o wire = hist.stream
            /\ Len(hist.data) + body_reader.rem = n
            /\ hist.ended => hist.data = SubSeq(hist.stream, 1, n)

\* A ContentLength(3) reader has returned its body in two pieces and then
\* EndOfMessage, with later bytes left in the buffer.
C20_Witness ==
    /\ role = "Reader"
    /\ hist.reader = ReaderContentLength(3)
    /\ hist.pieces = 2
    /\ hist.data = <<"a", "b", "c">>
    /\ hist.ended
    /\ in_buf # <<>>

\* The concatenation of a sequence of byte strings.
RECURSIVE Concat(_)
Concat(seqs) == IF seqs = <<>> THEN <<>> ELSE Head(seqs) \o Concat(Tail(seqs))

\* The well-formed chunked streams of ReaderInit with the chunks and the
\* trailers they encode.
ChunkedBodies ==
    {[stream |-> <<"2", "\r", "\n", "h", "i", "\r", "\n", "0", "\r", "\n",
                   "x", ":", "2", "\r", "\n", "\r", "\n">>,
      chunks |-> << <<"h", "i">> >>,
      trailers |-> Some(<<Header(<<"x">>, <<"2">>)>>)],
     [stream |-> <<"1", "\r", "\n", "a", "\r", "\n", "2", "\r", "\n", "b",
                   "c", "\r", "\n", "0", "\r", "\n", "\r", "\n">>,
      chunks |-> << <<"a">>, <<"b", "c">> >>,
      trailers |-> None],
     [stream |-> <<"1", ";", "e", "\r", "\n", "a", "\r", "\n", "0", "\r",
                   "\n", "X", ":", " ", "2", "\r", "\n", "\r", "\n">>,
      chunks |-> << <<"a">> >>,
      trailers |-> Some(<<Header(<<"x">>, <<"2">>)>>)]}

\* C21: a Chunked reader over a well-formed stream.  The Data payloads are
\* never empty and, concatenated, are the bytes of the chunks in order; with
\* all of the stream buffered there is one Data per chunk.  The reader is in
\* Start (AwaitingSize) or End (AwaitingCRLF) only at a chunk boundary, in
\* Data(rem) (InChunk) with rem bytes of the current chunk to come, in
\* Trailers (AwaitingTrailers) only after the last chunk; a call never leaves
\* Data but for Data or End, never leaves Trailers, and never fails.  The
\* EndOfMessage comes after all the data, consumes the stream to its end and
\* carries None for an empty trailer block, the parsed header map otherwise.
C21_ChunkedReader ==
    \A b \in ChunkedBodies :
        (/\ role = "Reader"
         /\ hist.reader.kind = "Chunked"
         /\ hist.stream = b.stream) =>
            LET all == Concat(b.chunks)
                upto(k) == Concat(SubSeq(b.chunks, 1, k))
                got == Len(hist.data)
            IN  /\ got <= Len(all)
                /\ hist.data = SubSeq(all, 1, got)
                /\ \A i \in 1..Len(hist.chunks) : hist.chunks[i] # <<>>
                /\ hist.whole =>
                       hist.chunks = SubSeq(b.chunks, 1, Len(hist.chunks))
                /\ body_reader.st = "Start" =>
                       \E k \in 0..Len(b.chunks) : hist.data = upto(k)
                /\ body_reader.st = "End" =>
                       \E k \in 1..Len(b.chunks) : hist.data = upto(k)
                /\ body_reader.st = "Data" =>
                       \E k \in 1..Len(b.chunks) :
                           /\ Len(upto(k - 1)) <= got
                           /\ got < Len(upto(k))
                           /\ body_reader.rem = Len(upto(k)) - got
                /\ body_reader.st = "Trailers" => hist.data = all
                /\ hist.ended =>
                       /\ body_reader.st = "Trailers"
                       /\ hist.eom = RetEndOfMessage(b.trailers)
                       /\ in_buf = <<>>
                       /\ wire = <<>>
                /\ call.op = "next_event" =>
                       /\ call.ret.kind # "Err"
                       /\ hist.pre.reader.st = "Data" =>
                              body_reader.st \in {"Data", "End"}
                       /\ hist.pre.reader.st = "Trailers" =>
                              body_reader.st = "Trailers"
                       /\ call.ret.kind = "Data" =>
                              body_reader.st \in {"Data", "End"}
                       /\ call.ret.kind = "EndOfMessage" =>
                              body_reader.st = "Trailers"

\* With all of the two-chunk stream buffered, three calls have returned
\* Data("a"), Data("bc") and EndOfMessage(None).
C21_Witness ==
    /\ role = "Reader"
    /\ hist.reader.kind = "Chunked"
    /\ hist.whole
    /\ hist.chunks = << <<"a">>, <<"b", "c">> >>
    /\ hist.ended
    /\ hist.eom = RetEndOfMessage(None)

\* Fed byte by byte, the stream with a trailer has given its chunk in two
\* pieces and then EndOfMessage with the header map of the trailer.
C21_WitnessTrailers ==
    /\ role = "Reader"
    /\ hist.reader.kind = "Chunked"
    /\ ~hist.whole
    /\ hist.chunks = << <<"h">>, <<"i">> >>
    /\ hist.ended
    /\ hist.eom = RetEndOfMessage(Some(<<Header(<<"x">>, <<"2">>)>>))

\* C22: a next_event of a Chunked reader in End (AwaitingCRLF).  With fewer
\* than two bytes buffered it returns none and consumes nothing; with CR LF
\* in front it consumes them and goes on from Start; two other bytes are not
\* taken for the end of the chunk: the call fails, or leaves the reader in
\* End with the buffer as it was.
C22_ChunkTerminator ==
    (/\ role = "Reader"
     /\ call.op = "next_event"
     /\ hist.pre.reader = ReaderChunked("End", 0)) =>
        CASE Len(hist.pre.buf) < 2
               -> /\ call.ret = RetNone
                  /\ body_reader = hist.pre.reader
                  /\ in_buf = hist.pre.buf
          [] SubSeq(hist.pre.buf, 1, 2) = CRLF
               -> [reader |-> body_reader, buf |-> in_buf, ret |-> call.ret]
                      = Chunked_next_event(
                            ReaderChunked("Start", 0),
                            SubSeq(hist.pre.buf, 3, Len(hist.pre.buf)))
          [] OTHER
               -> \/ call.ret.kind = "Err"
                  \/ /\ body_reader = hist.pre.reader
                     /\ in_buf = hist.pre.buf

\* C22 without its last case: what End does with fewer than two bytes and
\* with CR LF in front.
C22_TerminatorPresent ==
    (/\ role = "Reader"
     /\ call.op = "next_event"
     /\ hist.pre.reader = ReaderChunked("End", 0)
     /\ \/ Len(hist.pre.buf) < 2
        \/ SubSeq(hist.pre.buf, 1, 2) = CRLF) =>
        C22_ChunkTerminator

-----------------------------------------------------------------------------
(* SpecWriter: the body writers of src/body.rs (mod writer).  A             *)
(* ContentLength writer is [kind, rem]; the Chunked writer has no field.    *)
(* wire collects the bytes the writes return.                               *)

\* The width of usize in the model; the subtraction of write_chunk wraps at
\* 2^UsizeBits in a build without overflow checks.
UsizeBits == 16

\* The largest number of writes made on one writer.
MaxWrites == 3

\* writer::ContentLength::write_chunk on a writer with rem bytes to go: the
\* outcomes the build can produce, [kind, rem].  `self.0 -= data.len()`
\* underflows for a chunk longer than rem: a panic with overflow checks, the
\* wrapped difference without.
ContentLength_write_chunk(rem, data) ==
    IF Len(data) < rem THEN {[kind |-> "Err", rem |-> rem]}
    ELSE IF Len(data) = rem THEN {[kind |-> "Ok", rem |-> 0]}
    ELSE {[kind |-> "Panic", rem |-> rem],
          [kind |-> "Ok", rem |-> (rem - Len(data)) % (2 ^ UsizeBits)]}

\* writer::write_chunked_chunk: the length in lower-case hexadecimal, CR LF,
\* the data, CR LF.
write_chunked_chunk(data) ==
    LET RECURSIVE hex(_)
        hex(n) == IF n < 16 THEN <<HexDigits[n + 1]>>
                  ELSE hex(n \div 16) \o <<HexDigits[(n % 16) + 1]>>
    IN  hex(Len(data)) \o CRLF \o data \o CRLF

\* A ContentLength writer of any declared length, or the Chunked writer.
\* The history is the declared length, the number of bytes and of writes
\* accepted, and the writer before the most recent write.
WriterInit ==
    /\ state = State_new
    /\ last = LastNew
    /\ role = "Writer"
    /\ in_buf = <<>>
    /\ in_buf_closed = FALSE
    /\ client_wants_continue = FALSE
    /\ body_reader \in {[kind |-> "ContentLength", rem |-> n] : n \in 0..MaxLen}
                           \cup {[kind |-> "Chunked", rem |-> 0]}
    /\ wire = <<>>
    /\ call = CallNew
    /\ hist = [declared |-> body_reader.rem, accepted |-> 0, writes |-> 0,
               pre |-> body_reader]

\* writer::ContentLength::write_chunk with a chunk of up to MaxLen + 1 bytes.
WriterWriteChunk ==
    \E n \in 0..(MaxLen + 1) :
        \E data \in {SubSeq(<<"a", "b", "c", "d", "e", "f", "g", "h">>, 1, n)} :
            \E o \in ContentLength_write_chunk(body_reader.rem, data) :
                /\ body_reader.kind = "ContentLength"
                /\ ~Panicked
                /\ hist.writes < MaxWrites
                /\ body_reader' = [body_reader EXCEPT !.rem = o.rem]
                /\ wire' = IF o.kind = "Ok" THEN wire \o data ELSE wire
                /\ call' = Call("write_chunk", o.kind = "Ok",
                                CASE o.kind = "Ok" -> RetBytes(data)
                                  [] o.kind = "Err" -> RetErr("TooMuchData")
                                  [] OTHER -> [kind |-> "Panic"],
                                EvData(data), state, FALSE)
                /\ hist' = [hist EXCEPT
                               !.accepted = IF o.kind = "Ok"
                                            THEN @ + Len(data) ELSE @,
                               !.writes = @ + 1,
                               !.pre = body_reader]
                /\ UNCHANGED <<state, last, role, in_buf, in_buf_closed,
                               client_wants_continue>>

\* writer::write_chunked_chunk with a chunk of up to MaxLen + 1 bytes.
WriterWriteChunked ==
    \E n \in 0..(MaxLen + 1) :
        \E data \in {SubSeq(<<"a", "b", "c", "d", "e", "f", "g", "h">>, 1, n)} :
            /\ body_reader.kind = "Chunked"
            /\ hist.writes < MaxWrites
            /\ wire' = wire \o write_chunked_chunk(data)
            /\ call' = Call("write_chunked_chunk", TRUE,
                            RetBytes(write_chunked_chunk(data)),
                            EvData(data), state, FALSE)
            /\ hist' = [hist EXCEPT !.accepted = @ + Len(data),
                                    !.writes = @ + 1,
                                    !.pre = body_reader]
            /\ UNCHANGED <<state, last, role, in_buf, in_buf_closed,
                           client_wants_continue, body_reader>>

WriterNext ==
    \/ WriterWriteChunk
    \/ WriterWriteChunked

SpecWriter == WriterInit /\ [][WriterNext]_vars

-----------------------------------------------------------------------------
(* Properties of SpecWriter. *)

\* C23: write_chunk accepts a chunk if and only if it is no longer than rem;
\* an accepted chunk is returned unchanged and its length is taken off rem; a
\* longer one fails with TooMuchData and leaves rem as it was; so the bytes
\* accepted never exceed the declared length.
C23_WriteChunk ==
    (role = "Writer" /\ hist.pre.kind = "ContentLength") =>
        /\ call.op = "write_chunk" =>
               IF Len(call.ev.data) <= hist.pre.rem
               THEN /\ call.ret = RetBytes(call.ev.data)
                    /\ body_reader.rem = hist.pre.rem - Len(call.ev.data)
               ELSE /\ call.ret = RetErr("TooMuchData")
                    /\ body_reader.rem = hist.pre.rem
        /\ hist.accepted <= hist.declared

\* What write_chunked_chunk returns for a chunk that is not empty reads back
\* as that chunk: a Chunked reader in Start returns it as one Data event and
\* waits in End for the CR LF left in the buffer.  An empty chunk is written
\* as "0" CR LF CR LF, which reads back as EndOfMessage(None).
C25_WrittenChunkReadsBack ==
    (role = "Writer" /\ call.op = "write_chunked_chunk") =>
        Chunked_next_event(ReaderChunked("Start", 0), call.ret.bytes)
            = IF call.ev.data # <<>>
              THEN Read(ReaderChunked("End", 0), CRLF, RetData(call.ev.data))
              ELSE Read(ReaderChunked("Trailers", 0), <<>>,
                        RetEndOfMessage(None))

-----------------------------------------------------------------------------
(* Properties of SpecConn: the body a client-role caller sends. *)

\* The framing of the Request accepted last.
SentFraming == ReqHead_framing_method(hist.req)

\* C23 at HttpConn<Client>: the Data accepted after a Request with
\* Content-Length framing never add up to more than the declared length.
C23_SendDataWithinLength ==
    (/\ role = "Client"
     /\ hist.req # NoReqHead
     /\ SentFraming.kind = "ContentLength") =>
        hist.body_sent <= SentFraming.n

\* C24: after a Request with Content-Length framing, send_end_of_message is
\* accepted only when exactly the declared number of body bytes has been
\* sent, and then returns no bytes.
C24_EndOfMessageAtZero ==
    (/\ role = "Client"
     /\ call.op = "send_end_of_message"
     /\ call.ok
     /\ SentFraming.kind = "ContentLength") =>
        /\ hist.body_sent = SentFraming.n
        /\ call.ret = RetBytes(<<>>)

\* C25: after a Request with chunked framing, the bytes an accepted
\* send_data returns read back, through a Chunked reader in Start, as
\* Data of the fragment sent, and the bytes an accepted send_end_of_message
\* returns read back as EndOfMessage of the trailers sent.
C25_ChunkedRoundTrip ==
    (/\ role = "Client"
     /\ call.op \in {"send_data", "send_end_of_message"}
     /\ call.ok
     /\ SentFraming.kind = "Chunked") =>
        Chunked_next_event(ReaderChunked("Start", 0), call.ret.bytes).ret
            = IF call.op = "send_data" THEN RetData(call.ev.data)
              ELSE RetEndOfMessage(call.ev.trailers)

-----------------------------------------------------------------------------
(* SpecHead: the functions of src/util.rs, ReqHead::framing_method and     *)
(* RespHead::framing_method applied to a head.  The history is the head:   *)
(* the method of the request, the status of the response, the version and  *)
(* the headers.                                                            *)

\* A head of any version: without headers; with Connection values that do
\* and do not hold the token close; with Transfer-Encoding and
\* Content-Length values, alone and together.
HeadInit ==
    /\ state = State_new
    /\ last = LastNew
    /\ role = "Head"
    /\ in_buf = <<>>
    /\ in_buf_closed = FALSE
    /\ client_wants_continue = FALSE
    /\ body_reader = NoReader
    /\ wire = <<>>
    /\ call = CallNew
    /\ hist \in
           [method : {<<"G", "E", "T">>, <<"H", "E", "A", "D">>, M_CONNECT},
            status : {100, 200, 204, 304, 404},
            version : {"HTTP_09", "HTTP_10", "HTTP_11", "HTTP_2"},
            headers :
                {<<>>,
                 <<Header(H_CONNECTION, T_CLOSE)>>,
                 <<Header(H_CONNECTION, <<"a", ",", " ", "C", "l", "o", "s",
                                          "e", " ">>)>>,
                 <<Header(H_CONNECTION, <<"a">>),
                   Header(H_CONNECTION, T_CLOSE)>>,
                 <<Header(H_CONNECTION, <<"c", "l", "o", "s", "e", "d">>)>>,
                 <<Header(H_CONNECTION, <<"c", "l", "o", "s", "e", ",",
                                          "FF">>)>>,
                 <<Header(H_TRANSFER_ENCODING, T_CHUNKED)>>,
                 <<Header(H_TRANSFER_ENCODING,
                          <<"g", "z", "i", "p", ",", " ", "C", "h", "u", "n",
                            "k", "e", "d">>),
                   Header(H_CONTENT_LENGTH, <<"2">>)>>,
                 <<Header(H_TRANSFER_ENCODING, T_CHUNKED),
                   Header(H_TRANSFER_ENCODING, <<"g", "z", "i", "p">>),
                   Header(H_CONTENT_LENGTH, <<"1", "2">>)>>,
                 <<Header(H_CONTENT_LENGTH, <<"2">>),
                   Header(H_CONTENT_LENGTH, <<"3">>)>>,
                 <<Header(H_CONTENT_LENGTH, <<"2", "x">>)>>,
                 <<Header(H_CONTENT_LENGTH, <<>>),
                   Header(H_CONNECTION, <<"k", "e", "e", "p", "-", "a", "l",
                                          "i", "v", "e">>)>>}]

\* can_keep_alive
HeadCanKeepAlive ==
    /\ role = "Head"
    /\ call' = Call("can_keep_alive", TRUE,
                    [kind |-> "Bool",
                     v |-> can_keep_alive(hist.version, hist.headers)],
                    NoEvent, state, FALSE)
    /\ UNCHANGED <<state, last, role, in_buf, in_buf_closed,
                   client_wants_continue, body_reader, wire, hist>>

\* ReqHead::framing_method
HeadReqFraming ==
    /\ role = "Head"
    /\ call' = Call("ReqHead::framing_method", TRUE,
                    [kind |-> "Framing",
                     m |-> ReqHead_framing_method(
                               ReqHead(hist.method, <<"/">>, hist.version,
                                       hist.headers))],
                    NoEvent, state, FALSE)
    /\ UNCHANGED <<state, last, role, in_buf, in_buf_closed,
                   client_wants_continue, body_reader, wire, hist>>

\* RespHead::framing_method
HeadRespFraming ==
    /\ role = "Head"
    /\ call' = Call("RespHead::framing_method", TRUE,
                    [kind |-> "Framing",
                     m |-> RespHead_framing_method(
                               RespHead(hist.status, hist.version,
                                        hist.headers),
                               hist.method)],
                    NoEvent, state, FALSE)
    /\ UNCHANGED <<state, last, role, in_buf, in_buf_closed,
                   client_wants_continue, body_reader, wire, hist>>

\* The request-targets of the heads written and parsed back: origin form
\* without and with a query, the asterisk, and authority form.
Targets ==
    {<<"/">>, <<"/", "a", "?", "b", "=", "1">>, <<"*">>,
     <<"h", ":", "4", "4", "3">>}

\* What a head written by write_to_buf parses back to: the result of
\* from_buf on the bytes, or the panic of write_to_buf.
Reparsed(w, parsed) ==
    IF w.panic THEN [kind |-> "Panic"]
    ELSE [kind |-> "Parsed", r |-> parsed]

\* ReqHead::write_to_buf, then ReqHead::from_buf on the bytes it returned.
HeadReqRoundTrip ==
    \E uri \in Targets :
        \E req \in {ReqHead(hist.method, uri, hist.version, hist.headers)} :
            \E w \in {ReqHead_write_to_buf(req)} :
                /\ role = "Head"
                /\ call' = Call("ReqHead::round_trip", ~w.panic,
                                Reparsed(w, ReqHead_from_buf(w.bytes)),
                                EvRequest(req), state, FALSE)
                /\ UNCHANGED <<state, last, role, in_buf, in_buf_closed,
                               client_wants_continue, body_reader, wire,
                               hist>>

\* RespHead::write_to_buf, then RespHead::from_buf on the bytes it returned.
HeadRespRoundTrip ==
    \E resp \in {RespHead(hist.status, hist.version, hist.headers)} :
        \E w \in {RespHead_write_to_buf(resp)} :
            /\ role = "Head"
            /\ call' = Call("RespHead::round_trip", ~w.panic,
                            Reparsed(w, RespHead_from_buf(w.bytes)),
                            EvResponse(resp), state, FALSE)
            /\ UNCHANGED <<state, last, role, in_buf, in_buf_closed,
                           client_wants_continue, body_reader, wire, hist>>

HeadNext ==
    \/ HeadReqRoundTrip
    \/ HeadRespRoundTrip
    \/ HeadCanKeepAlive
    \/ HeadReqFraming
    \/ HeadRespFraming

SpecHead == HeadInit /\ [][HeadNext]_vars

-----------------------------------------------------------------------------
(* Properties of SpecHead. *)

\* C26: the framing of a response is ContentLength(0) when the status is
\* 204 or 304, or the method of the request is HEAD, or it is CONNECT and
\* the status is 2xx, whatever the headers say; otherwise Chunked when
\* is_chunked holds; otherwise ContentLength(n) when Content-Length parses to
\* n; otherwise Http10.
C26_ResponseFraming ==
    (role = "Head" /\ call.op = "RespHead::framing_method") =>
        LET no_body ==
                \/ hist.status \in {204, 304}
                \/ hist.method = <<"H", "E", "A", "D">>
                \/ /\ hist.method = <<"C", "O", "N", "N", "E", "C", "T">>
                   /\ hist.status \in 200..299
            n == maybe_content_length(hist.headers)
        IN  call.ret.m =
                CASE no_body -> FramingContentLength(0)
                  [] ~no_body /\ is_chunked(hist.headers) -> FramingChunked
                  [] ~no_body /\ ~is_chunked(hist.headers) /\ n.some
                       -> FramingContentLength(n.v)
                  [] OTHER -> FramingHttp10

\* The response 200 to a HEAD whose headers are chunked and carry a
\* Content-Length has been framed.
C26_Witness ==
    /\ role = "Head"
    /\ call.op = "RespHead::framing_method"
    /\ hist.method = <<"H", "E", "A", "D">>
    /\ hist.status = 200
    /\ is_chunked(hist.headers)
    /\ maybe_content_length(hist.headers).some
    /\ call.ret.m = FramingContentLength(0)

\* C27: the framing of a request is Chunked whenever is_chunked holds, a
\* Content-Length or not; otherwise ContentLength(n) for the Content-Length
\* that parses to n, ContentLength(0) without one that parses; never Http10.
C27_RequestFraming ==
    (role = "Head" /\ call.op = "ReqHead::framing_method") =>
        LET n == maybe_content_length(hist.headers)
        IN  /\ call.ret.m =
                   CASE is_chunked(hist.headers) -> FramingChunked
                     [] ~is_chunked(hist.headers) /\ n.some
                          -> FramingContentLength(n.v)
                     [] OTHER -> FramingContentLength(0)
            /\ call.ret.m # FramingHttp10

\* A request that is chunked and carries Content-Length: 2 has been framed
\* as Chunked.
C27_Witness ==
    /\ role = "Head"
    /\ call.op = "ReqHead::framing_method"
    /\ is_chunked(hist.headers)
    /\ maybe_content_length(hist.headers) = Some(2)
    /\ call.ret.m = FramingChunked

\* C28: can_keep_alive is true if and only if the version is HTTP/1.1 or
\* later and no value of Connection, cut at its commas, has a piece that is
\* "close" once trimmed, in any case of letters.
C28_CanKeepAlive ==
    (role = "Head" /\ call.op = "can_keep_alive") =>
        (call.ret.v <=>
            /\ hist.version \in {"HTTP_11", "HTTP_2"}
            /\ \A i \in 1..Len(hist.headers) :
                   hist.headers[i].name = H_CONNECTION =>
                       LET toks == split(hist.headers[i].value, ",")
                       IN  \A k \in 1..Len(toks) :
                               ~eq_ignore_ascii_case(trim(toks[k]),
                                                     <<"c", "l", "o", "s",
                                                       "e">>))

\* C28 for the heads whose Connection values are all UTF-8.
C28_CanKeepAliveUtf8 ==
    (/\ role = "Head"
     /\ call.op = "can_keep_alive"
     /\ \A i \in 1..Len(hist.headers) :
            from_utf8(hist.headers[i].value).some) =>
        C28_CanKeepAlive

-----------------------------------------------------------------------------
(* Properties of SpecConn: client_wants_continue and read_from. *)

\* C29: client_wants_continue is true exactly when the Request accepted
\* last carried an Expect header whose last value is 100-continue, in any
\* case of letters, and no client Data or EndOfMessage and no server
\* InfoResponse or Response was accepted after it; a rejected event leaves
\* it as it was.
C29_WantsContinue ==
    (role \in {"Client", "Server"}) =>
        /\ client_wants_continue <=>
               /\ hist.req # NoReqHead
               /\ LET vals == get_all(hist.req.headers, H_EXPECT)
                  IN  /\ vals # <<>>
                      /\ eq_ignore_ascii_case(vals[Len(vals)],
                                              T_100_CONTINUE)
               /\ ~hist.since
        /\ (call.ev # NoEvent /\ call.ret.kind = "Err") =>
               client_wants_continue = call.pre.cwc

\* C29 for the connections of the client role, where every event goes
\* through Inner::client_event.
C29_WantsContinueClient ==
    role = "Client" => C29_WantsContinue

\* C30: in_buf_closed is never reset, and a read_from that obtained n bytes
\* of the stream does this: for n = 0 it sets in_buf_closed and returns
\* Ok(0); for n > 0 after in_buf_closed it fails and the ingest buffer is as
\* it was; otherwise the ingest buffer is longer by exactly those n bytes and
\* Ok(n) is returned.
C30_ReadFrom ==
    [][/\ in_buf_closed => in_buf_closed'
       /\ (role \in {"Client", "Server"} /\ call'.op = "read_from") =>
              LET n == Len(wire) - Len(wire')
              IN  CASE n = 0
                         -> /\ in_buf_closed'
                            /\ in_buf' = in_buf
                            /\ call'.ret = RetRead(0)
                    [] n > 0 /\ in_buf_closed
                         -> /\ call'.ret = RetErr("PeerDataAfterClose")
                            /\ in_buf' = in_buf
                    [] OTHER
                         -> /\ call'.ret = RetRead(n)
                            /\ in_buf' = in_buf \o SubSeq(wire, 1, n)
                            /\ Len(in_buf') = Len(in_buf) + n
                            /\ ~in_buf_closed']_vars

\* A read_from has failed on bytes that came after the end of the stream,
\* with bytes of an earlier read still in the ingest buffer.
C30_Witness ==
    /\ role = "Server"
    /\ call.op = "read_from"
    /\ call.ret = RetErr("PeerDataAfterClose")
    /\ in_buf_closed
    /\ in_buf # <<>>

-----------------------------------------------------------------------------
(* Properties of the closed, failed and switching states, checked under    *)
(* Spec.                                                                   *)

\* The operations of State that set a side to Error unconditionally.
ErrorOps == {"client_error", "server_error"}

\* C31 (as stated): once both sides are Closed, the only event accepted from
\* either side is ConnectionClosed, which leaves (Closed, Closed); Request,
\* InfoResponse, Response, Data, EndOfMessage and start_next_cycle are
\* rejected, and no operation at all moves either side out of Closed.
C31_NothingLeavesClosed ==
    states(last.pre) = <<"Closed", "Closed">> =>
        /\ last.op \in {"client_event", "server_event"} =>
               last.ok <=> (last.ev = "ConnectionClosed" /\ last.sw = "None")
        /\ last.op = "start_next_cycle" => ~last.ok
        /\ states(state) = <<"Closed", "Closed">>

\* C31 (amended): once both sides are Closed, the only event accepted from
\* either side is ConnectionClosed (with no switch), which leaves the State
\* as it was; every other event and start_next_cycle are rejected and leave
\* the State as it was; and no operation other than client_error /
\* server_error, which set their own side to Error, moves a Closed side out
\* of Closed.
C31_ClosedIsTerminal ==
    /\ states(last.pre) = <<"Closed", "Closed">> =>
           /\ last.op \in {"client_event", "server_event"} =>
                  /\ last.ok <=>
                         (last.ev = "ConnectionClosed" /\ last.sw = "None")
                  /\ state = last.pre
           /\ last.op = "start_next_cycle" => ~last.ok /\ state = last.pre
           /\ last.op \notin ErrorOps =>
                  states(state) = <<"Closed", "Closed">>
           /\ last.op = "client_error" => states(state) = <<"Error", "Closed">>
           /\ last.op = "server_error" => states(state) = <<"Closed", "Error">>
    /\ (last.pre.client = "Closed" /\ last.op # "client_error") =>
           state.client = "Closed"
    /\ (last.pre.server = "Closed" /\ last.op # "server_error") =>
           state.server = "Closed"

\* A second ConnectionClosed of the client has been accepted with both sides
\* Closed.
C31_Witness ==
    /\ last.op = "client_event"
    /\ last.ev = "ConnectionClosed"
    /\ last.ok
    /\ states(last.pre) = <<"Closed", "Closed">>
    /\ states(state) = <<"Closed", "Closed">>

\* C33, the part about the other events: once a side is in Error, every
\* event for that side other than ConnectionClosed is rejected and leaves
\* the State unchanged (and so is ConnectionClosed).
C33_ErrorRejectsEvents ==
    /\ (last.op = "client_event" /\ last.pre.client = "Error") =>
           ~last.ok /\ state = last.pre
    /\ (last.op = "server_event" /\ last.pre.server = "Error") =>
           ~last.ok /\ state = last.pre

\* C33: once a side is in Error, ConnectionClosed is still accepted for that
\* side, moving it to Closed, while every other event for that side is
\* rejected and leaves the State unchanged.
C33_ErrorAllowsClose ==
    /\ (last.op = "client_event" /\ last.pre.client = "Error") =>
           IF last.ev = "ConnectionClosed"
           THEN last.ok /\ state.client = "Closed"
           ELSE ~last.ok /\ state = last.pre
    /\ (/\ last.op = "server_event" /\ last.sw = "None"
        /\ last.pre.server = "Error") =>
           IF last.ev = "ConnectionClosed"
           THEN last.ok /\ state.server = "Closed"
           ELSE ~last.ok /\ state = last.pre

\* C36: in every State an operation returns, client Done implies that no
\* switch proposal is pending, and client MightSwitchProtocol implies that a
\* proposal is pending and the server is not SwitchedProtocol;
\* MightSwitchProtocol is entered only from Done, returns to Done (MustClose
\* without keep-alive) when all flags clear, and becomes SwitchedProtocol
\* when the server becomes SwitchedProtocol.
C36_MightSwitchProtocol ==
    /\ state.client = "Done" => ~any_pending(state)
    /\ state.client = "MightSwitchProtocol" =>
           /\ any_pending(state)
           /\ state.server # "SwitchedProtocol"
           /\ last.pre.client # "MightSwitchProtocol" =>
                  last.mid.client = "Done"
    /\ last.pre.client = "MightSwitchProtocol" =>
           /\ ~any_pending(state) =>
                  state.client =
                      IF state.keep_alive THEN "Done" ELSE "MustClose"
           /\ state.server = "SwitchedProtocol" =>
                  state.client = "SwitchedProtocol"
           /\ state.client \in {"MightSwitchProtocol", "Done", "MustClose",
                                "SwitchedProtocol", "Error"}
           /\ state.client = "Error" <=> last.op = "client_error"

\* The client's EndOfMessage was accepted with only an Upgrade proposed: the
\* client passed through Done into MightSwitchProtocol.
C36_Witness ==
    /\ last.op = "client_event"
    /\ last.ev = "EndOfMessage"
    /\ last.ok
    /\ last.mid.client = "Done"
    /\ state.client = "MightSwitchProtocol"
    /\ state.pending_upgrade /\ ~state.pending_connect

\* A switch accepted by the server took the waiting client along.
C36_WitnessSwitched ==
    /\ last.op = "server_event"
    /\ last.ok
    /\ last.pre.client = "MightSwitchProtocol"
    /\ states(state) = <<"SwitchedProtocol", "SwitchedProtocol">>

\* C37: whenever one side becomes Closed while the other is Done or Idle,
\* the other side is MustClose in the State returned (the server's
\* ConnectionClosed from (Done, Done) gives (MustClose, Closed)); hence no
\* State an operation returns has one side Closed and the other Idle or
\* Done.
C37_PeerPromotion ==
    /\ (/\ state.client = "Closed" /\ last.pre.client # "Closed"
        /\ last.pre.server \in {"Done", "Idle"}) =>
           states(state) = <<"Closed", "MustClose">>
    /\ (/\ state.server = "Closed" /\ last.pre.server # "Closed"
        /\ last.pre.client \in {"Done", "Idle"}) =>
           states(state) = <<"MustClose", "Closed">>
    /\ state.client = "Closed" => state.server \notin {"Idle", "Done"}
    /\ state.server = "Closed" => state.client \notin {"Idle", "Done"}

\* The server closed a connection whose cycle was complete.
C37_Witness ==
    /\ last.op = "server_event"
    /\ last.ev = "ConnectionClosed"
    /\ last.ok
    /\ states(last.pre) = <<"Done", "Done">>
    /\ states(state) = <<"MustClose", "Closed">>

\* The client closed a connection on which nothing had been sent.
C37_WitnessIdle ==
    /\ last.op = "client_event"
    /\ last.ev = "ConnectionClosed"
    /\ last.ok
    /\ states(last.pre) = <<"Idle", "Idle">>
    /\ states(state) = <<"Closed", "MustClose">>

-----------------------------------------------------------------------------
(* Properties of the driver's responses and switches, checked under        *)
(* SpecConn.                                                               *)

\* C32, the part about the server's state: an InfoResponse or a Response is
\* accepted only when the server is in Idle or SendResponse (an InfoResponse
\* only in SendResponse).
C32_ResponseStates ==
    (Accepted /\ call.op \in {"send_info_resp", "send_resp"}) =>
        /\ call.pre.state.server \in {"Idle", "SendResponse"}
        /\ call.op = "send_info_resp" =>
               call.pre.state.server = "SendResponse"

\* C32: a Response or InfoResponse is accepted only when the server is in
\* Idle or SendResponse, and a final Response is accepted only if a Request
\* was accepted earlier in the same cycle: a server cannot emit a Response
\* on a connection on which the client has sent no request.
C32_ResponseNeedsRequest ==
    (Accepted /\ call.op \in {"send_info_resp", "send_resp"}) =>
        /\ call.pre.state.server \in {"Idle", "SendResponse"}
        /\ call.op = "send_resp" => hist.req # NoReqHead

-----------------------------------------------------------------------------
(* The head round trip, checked under SpecHead. *)

\* No header value of the map has whitespace at either end: the values a
\* parser delivers.
PlainValues(headers) ==
    \A i \in 1..Len(headers) :
        headers[i].value = trim_ows_end(trim_ows_start(headers[i].value))

\* The head written has version HTTP/1.1 and plain header values.
RoundTripCase ==
    /\ role = "Head"
    /\ call.op \in {"ReqHead::round_trip", "RespHead::round_trip"}
    /\ call.ev.head.version = "HTTP_11"
    /\ PlainValues(call.ev.head.headers)

\* The bytes written parsed back to the head they were written from, and
\* nothing was left over.
ReadBack ==
    call.ret = [kind |-> "Parsed",
                r |-> [kind |-> "Some", head |-> call.ev.head,
                       rest |-> <<>>]]

\* C34, for a request-target in origin form (with or without a query) or
\* "*": parsing the bytes produced by serializing an HTTP/1.1 ReqHead
\* yields a head equal to it.
C34_OriginFormRoundTrip ==
    (/\ RoundTripCase
     /\ call.op = "ReqHead::round_trip"
     /\ Head(call.ev.head.uri) \in {"/", "*"}) => ReadBack

\* C34, for responses: parsing the bytes produced by serializing an
\* HTTP/1.1 RespHead yields a head equal to it.
C34_RespRoundTrip ==
    (RoundTripCase /\ call.op = "RespHead::round_trip") => ReadBack

\* C34: for every ReqHead with version HTTP/1.1, targets in authority form
\* and targets with a query included, parsing the bytes produced by
\* serializing it yields a head equal to it (method, request-target,
\* version, headers in order with duplicates); the same for every RespHead.
C34_HeadRoundTrip ==
    RoundTripCase => ReadBack

-----------------------------------------------------------------------------
(* SpecTransitions: the loop of State::state_transitions, one iteration a  *)
(* step, started on every value of State.  The history is the State the    *)
(* function was called on, the number of iterations made and whether the   *)
(* function has returned.                                                  *)

\* The most iterations the model lets the loop make.
MaxIterations == 6

TransInit ==
    /\ state \in [client : Client, server : Server, keep_alive : BOOLEAN,
                  pending_connect : BOOLEAN, pending_upgrade : BOOLEAN]
    /\ last = LastNew
    /\ role = "Transitions"
    /\ in_buf = <<>>
    /\ in_buf_closed = FALSE
    /\ client_wants_continue = FALSE
    /\ body_reader = NoReader
    /\ wire = <<>>
    /\ call = CallNew
    /\ hist = [start |-> state, iterations |-> 0, returned |-> FALSE]

\* One pass of the loop: the four rules, then the test that ends the loop
\* when the pair of states is as it was at the start of the pass.
TransIteration ==
    /\ role = "Transitions"
    /\ ~hist.returned
    /\ hist.iterations < MaxIterations
    /\ state' = transitions_body(state)
    /\ hist' = [hist EXCEPT !.iterations = @ + 1,
                            !.returned = (states(state) = states(state'))]
    /\ UNCHANGED <<last, role, in_buf, in_buf_closed, client_wants_continue,
                   body_reader, wire, call>>

\* The loop is not interrupted: an iteration that can be made is made.
SpecTransitions ==
    TransInit /\ [][TransIteration]_vars /\ WF_vars(TransIteration)

\* None of the four rules of the loop body applies to the State.
Stable(st) ==
    /\ ~(any_pending(st) /\ st.client = "Done")
    /\ ~(~any_pending(st) /\ st.client = "MightSwitchProtocol")
    /\ ~st.keep_alive => (st.client # "Done" /\ st.server # "Done")
    /\ states(st) \notin
           {<<"MightSwitchProtocol", "SwitchedProtocol">>,
            <<"Closed", "Done">>, <<"Closed", "Idle">>, <<"Error", "Done">>,
            <<"Done", "Closed">>, <<"Idle", "Closed">>, <<"Done", "Error">>}

\* C35: state_transitions terminates from every combination of client
\* state, server state, keep_alive and pending flags, within at most 4 loop
\* iterations, and what it returns is a fixed point: no rule applies to it,
\* another call returns it unchanged, and the flags are those it was called
\* with.
C35_Terminates ==
    /\ [](role = "Transitions" =>
              /\ hist.iterations <= 4
              /\ hist.returned =>
                     /\ Stable(state)
                     /\ transitions_body(state) = state
                     /\ state_transitions(state) = state
                     /\ state = state_transitions(hist.start)
                     /\ state.keep_alive = hist.start.keep_alive
                     /\ any_pending(state) = any_pending(hist.start))
    /\ <>(role = "Transitions" => hist.returned)

\* The function has returned after a pass that changed both sides (client
\* MightSwitchProtocol to Done to MustClose, server Done to MustClose) and a
\* second pass that changed nothing.
C35_Witness ==
    /\ role = "Transitions"
    /\ hist.returned
    /\ hist.iterations = 2
    /\ states(hist.start) = <<"MightSwitchProtocol", "Done">>
    /\ states(state) = <<"MustClose", "MustClose">>

\* C38: an InfoResponse with status 101 is always submitted with switch
\* Upgrade: it fails when no Upgrade was proposed and, from SendResponse,
\* otherwise moves the server to SwitchedProtocol.  A final Response with a
\* 2xx status while pending_connect is set is submitted with switch Connect:
\* from SendResponse the server becomes SwitchedProtocol.  Every other
\* response is submitted with no switch: an InfoResponse leaves the server in
\* SendResponse and the flags as they were, a final Response (a non-2xx
\* answer to a CONNECT included) clears both flags and moves the server to
\* SendBody.
C38_SwitchDerivation ==
    (role = "Server" /\ call.op \in {"send_info_resp", "send_resp"}) =>
        LET pre == call.pre.state
            status == call.ev.head.status
            flags(st) == <<st.pending_connect, st.pending_upgrade>>
        IN  CASE call.op = "send_info_resp" /\ status = 101
                   -> /\ Accepted <=> (/\ pre.pending_upgrade
                                       /\ pre.server = "SendResponse")
                      /\ ~pre.pending_upgrade =>
                             call.ret = RetErr("InvalidSwitch")
                      /\ Accepted =>
                             /\ state.server = "SwitchedProtocol"
                             /\ flags(state) = flags(pre)
              [] /\ call.op = "send_resp"
                 /\ pre.pending_connect
                 /\ is_success(status)
                   -> /\ Accepted <=> pre.server = "SendResponse"
                      /\ Accepted =>
                             /\ state.server = "SwitchedProtocol"
                             /\ flags(state) = flags(pre)
              [] call.op = "send_info_resp"
                   -> /\ Accepted <=> pre.server = "SendResponse"
                      /\ Accepted =>
                             /\ state.server = "SendResponse"
                             /\ flags(state) = flags(pre)
              [] OTHER
                   -> /\ Accepted <=> pre.server \in {"Idle", "SendResponse"}
                      /\ Accepted =>
                             /\ state.server = "SendBody"
                             /\ flags(state) = <<FALSE, FALSE>>

\* A CONNECT was answered with 404: the proposal is gone and the server
\* sends a body.
C38_Witness ==
    /\ role = "Server"
    /\ call.op = "send_resp"
    /\ Accepted
    /\ call.ev.head.status = 404
    /\ call.pre.state.pending_connect
    /\ ~state.pending_connect
    /\ state.server = "SendBody"

\* A CONNECT was answered with 200: the server has switched.
C38_WitnessConnect ==
    /\ role = "Server"
    /\ call.op = "send_resp"
    /\ Accepted
    /\ call.ev.head.status = 200
    /\ call.pre.state.pending_connect
    /\ state.server = "SwitchedProtocol"

\* An Upgrade was answered with 101.
C38_WitnessUpgrade ==
    /\ role = "Server"
    /\ call.op = "send_info_resp"
    /\ Accepted
    /\ call.ev.head.status = 101
    /\ state.server = "SwitchedProtocol"

\* A 101 was refused for want of a proposal.
C38_WitnessRefused ==
    /\ role = "Server"
    /\ call.op = "send_info_resp"
    /\ call.ev.head.status = 101
    /\ call.pre.state.server = "SendResponse"
    /\ call.ret = RetErr("InvalidSwitch")

\* C39: in every reachable state of a driver, whatever send operations
\* (accepted or rejected) and next_event calls were made, a client side in
\* MightSwitchProtocol has the server side in SendResponse: it is never
\* opposite a server in Done, MustClose or Closed.
C39_WaitingClientHasServer ==
    (role \in {"Client", "Server"}
     /\ state.client = "MightSwitchProtocol") =>
        state.server = "SendResponse"

\* The end of a CONNECT request was sent: the client waits for the answer.
C39_Witness ==
    /\ role = "Client"
    /\ call.op = "send_end_of_message"
    /\ call.ok
    /\ hist.req.method = M_CONNECT
    /\ states(state) = <<"MightSwitchProtocol", "SendResponse">>

\* The client waits because a Request that was rejected after the end of an
\* ordinary request set a proposal.
C39_WitnessRejected ==
    /\ role = "Client"
    /\ call.op = "send_req"
    /\ ~call.ok
    /\ call.pre.state.client = "Done"
    /\ states(state) = <<"MightSwitchProtocol", "SendResponse">>

\* C40: under any sequence of driver operations a side in MustClose stays
\* in MustClose until its own ConnectionClosed moves it to Closed; it never
\* returns to Idle, SendBody, SendResponse or Done, and no Request is
\* accepted once either side is MustClose.
C40_MustCloseOnlyToClosed ==
    [][/\ state.client = "MustClose" =>
              /\ state'.client \in {"MustClose", "Closed"}
              /\ state'.client = "Closed" =>
                     /\ role = "Client"
                     /\ call'.op = "send_connection_closed"
                     /\ call'.ok
       /\ state.server = "MustClose" =>
              /\ state'.server \in {"MustClose", "Closed"}
              /\ state'.server = "Closed" =>
                     /\ role = "Server"
                     /\ call'.op = "send_connection_closed"
                     /\ call'.ok
       /\ (state.client = "MustClose" \/ state.server = "MustClose") =>
              ~(/\ call'.ev # NoEvent
                /\ call'.ev.kind = "Request"
                /\ call'.ret.kind # "Err")]_vars

\* A server that had to close after its response has closed.
C40_Witness ==
    /\ role = "Server"
    /\ call.op = "send_connection_closed"
    /\ call.ok
    /\ call.pre.state.server = "MustClose"
    /\ hist.resp_ended
    /\ state.server = "Closed"

\* A client that had to close after its request has been refused a second
\* Request and is still in MustClose.
C40_WitnessRefused ==
    /\ role = "Client"
    /\ call.op = "send_req"
    /\ ~call.ok
    /\ call.pre.state.client = "MustClose"
    /\ state.client = "MustClose"

=============================================================================
